---- MODULE Spec2Model ----
(***************************************************************************)
(* SohnBot: the capability broker (route_operation), the audit store       *)
(* (execution_log), the notification outbox and its worker, and the        *)
(* clarification/postponement manager, as one state machine.               *)
(***************************************************************************)
EXTENDS Integers, Sequences, FiniteSets, TLC

(***************************************************************************)
(* Bounds of the model.                                                    *)
(***************************************************************************)
MaxOps == 2
MaxOutbox == 1
PollInterval == 2
MaxTasks == 2

(***************************************************************************)
(* Program constants.                                                      *)
(***************************************************************************)
MaxRetries == 3
BatchSize == 10

(***************************************************************************)
(* Paths.  A path string is a sequence of segments; "" is the empty        *)
(* sequence.  A parameter value is absent (key not in params), None, or a  *)
(* string.                                                                 *)
(***************************************************************************)
Absent == [t |-> "absent", segs |-> <<>>]
NoneVal == [t |-> "none", segs |-> <<>>]
Str(segs) == [t |-> "str", segs |-> segs]

Home == <<"home">>
ConfiguredRoots == { <<"~", "Projects">>, <<"root">> }

PEmpty == Str(<<>>)
PIn == Str(<<"root", "a">>)
PEscape == Str(<<"root", "..", "etc">>)
POut == Str(<<"etc">>)
PathValues == {NoneVal, PEmpty, PIn, PEscape, POut}

\* the symbolic links of the file system: /root/link -> /etc
Links == (<<"root", "link">> :> <<"etc">>)

\* Path.resolve(strict=False): each . is dropped, each .. leaves the directory
\* reached so far, each symbolic link is replaced by its target
RECURSIVE ResolveFrom(_, _)
ResolveFrom(acc, rest) ==
  IF rest = <<>> THEN acc
  ELSE LET s == Head(rest) IN
       IF s = ".."
       THEN ResolveFrom(IF acc = <<>> THEN <<>> ELSE SubSeq(acc, 1, Len(acc) - 1),
                        Tail(rest))
       ELSE IF s = "." THEN ResolveFrom(acc, Tail(rest))
       ELSE ResolveFrom(IF Append(acc, s) \in DOMAIN Links
                        THEN Links[Append(acc, s)] ELSE Append(acc, s),
                        Tail(rest))

\* ScopeValidator._normalize_path: expand ~, then resolve . and .. segments
NormalizePath(segs) ==
  LET expanded == IF segs # <<>> /\ Head(segs) = "~" THEN Home \o Tail(segs) ELSE segs
  IN ResolveFrom(<<>>, expanded)

\* ScopeValidator.__init__: every configured root is normalized once
allowed_roots == { NormalizePath(r) : r \in ConfiguredRoots }

\* Path.relative_to(root) succeeds iff root is a segment-wise prefix
RelativeTo(p, root) ==
  /\ Len(root) <= Len(p)
  /\ SubSeq(p, 1, Len(root)) = root

\* ScopeValidator.validate_path
validate_path(v) ==
  IF v.t # "str" THEN FALSE
  ELSE IF v.segs = <<>> THEN FALSE
  ELSE \E root \in allowed_roots : RelativeTo(NormalizePath(v.segs), root)

(***************************************************************************)
(* Requests: (capability, action, params).                                 *)
(***************************************************************************)
NoPaths == [t |-> "absent", items |-> <<>>]
PathList(items) == [t |-> "list", items |-> items]
PathsValues == {NoPaths, PathList(<<PIn, PIn>>), PathList(<<PIn, PEscape>>)}

Has(v) == v.t # "absent"
\* Python truthiness of a parameter value obtained with params.get(...)
Truthy(v) == v.t = "str" /\ v.segs # <<>>

FsActions == {"read", "list", "search", "apply_patch", "move"}
GitActions == {"status", "diff", "commit", "checkout", "rollback",
               "list_snapshots", "prune_snapshots"}
TextValues == {"absent", "empty", "ok"}

Params(path, paths, repo_path, pattern, patch, snapshot_ref) ==
  [path |-> path, paths |-> paths, repo_path |-> repo_path, pattern |-> pattern,
   patch |-> patch, snapshot_ref |-> snapshot_ref]

FsRequests ==
  { [capability |-> "fs", action |-> a,
     params |-> Params(p, ps, Absent, pat, pch, FALSE)] :
      a \in FsActions, p \in PathValues \cup {Absent}, ps \in PathsValues,
      pat \in TextValues, pch \in TextValues }

GitRequests ==
  { [capability |-> "git", action |-> a,
     params |-> Params(p, NoPaths, rp, "absent", "absent", sr)] :
      a \in GitActions, p \in {Absent, PIn}, rp \in PathValues \cup {Absent},
      sr \in BOOLEAN }

OtherRequests ==
  { [capability |-> "web", action |-> "search",
     params |-> Params(Absent, NoPaths, Absent, "absent", "absent", FALSE)] }

\* parameters that the action does not read are left out of the request
Relevant(r) ==
  /\ r.params.pattern # "absent" => r.action = "search"
  /\ r.params.patch # "absent" => r.action = "apply_patch"
  /\ r.params.snapshot_ref => r.action = "rollback"
  /\ r.capability = "git" /\ Has(r.params.path) => r.action = "commit"

Requests == { r \in FsRequests \cup GitRequests \cup OtherRequests : Relevant(r) }

Chats == {"123", "unknown"}
\* the chat whose operations the broker specification routes
RouteChats == {"123"}
\* int(chat_id) succeeds
Castable(chat) == chat = "123"

\* BrokerRouter._count_files
count_files(params) ==
  IF Has(params.path) THEN 1
  ELSE IF params.paths.t = "list" THEN Len(params.paths.items)
  ELSE 0

READ_ONLY_ACTIONS == { <<"fs", "read">>, <<"fs", "list">>, <<"fs", "search">>,
                       <<"git", "status">>, <<"git", "diff">>, <<"web", "search">>,
                       <<"profiles", "lint">> }
SINGLE_FILE_ACTIONS == { <<"fs", "apply_patch">>, <<"git", "commit">>,
                         <<"git", "checkout">> }

\* a classifier whose default is the reserved tier
classify_tier_reserved(capability, action, file_count) ==
  IF <<capability, action>> \in READ_ONLY_ACTIONS THEN 0
  ELSE IF <<capability, action>> \in SINGLE_FILE_ACTIONS /\ file_count = 1 THEN 1
  ELSE IF file_count > 1 THEN 2
  ELSE 3

\* a classifier that takes a single-file action for tier 1 whatever the count
classify_tier_by_action(capability, action, file_count) ==
  IF <<capability, action>> \in READ_ONLY_ACTIONS THEN 0
  ELSE IF <<capability, action>> \in SINGLE_FILE_ACTIONS THEN 1
  ELSE 2

classify_tier(capability, action, file_count) ==
  IF <<capability, action>> \in READ_ONLY_ACTIONS THEN 0
  ELSE IF <<capability, action>> \in SINGLE_FILE_ACTIONS /\ file_count = 1 THEN 1
  ELSE IF file_count > 1 THEN 2
  ELSE 2

\* route_operation, step 3 for capability fs: the paths it validates
paths_to_validate(params) ==
  (IF Has(params.path) THEN <<params.path>> ELSE <<>>)
    \o (IF params.paths.t = "list" THEN params.paths.items ELSE <<>>)

FsCheck(action, params) ==
  IF action \in {"read", "list", "search", "apply_patch"} /\ ~Has(params.path)
  THEN "invalid_request"
  ELSE IF action = "search" /\ params.pattern # "ok" THEN "invalid_request"
  ELSE IF action = "apply_patch" /\ params.patch # "ok" THEN "invalid_request"
  ELSE IF \E i \in 1..Len(paths_to_validate(params)) :
            ~validate_path(paths_to_validate(params)[i])
  THEN "scope_violation"
  ELSE "ok"

\* the `if repo_path:` guard of the git scope check
GitScopeChecked(repo_path) == Truthy(repo_path)

GitCheck(action, params) ==
  IF action \in {"status", "diff", "list_snapshots"} /\ ~Has(params.repo_path)
  THEN "invalid_request"
  ELSE IF action = "rollback" /\ (~Has(params.repo_path) \/ ~params.snapshot_ref)
  THEN "invalid_request"
  ELSE IF GitScopeChecked(params.repo_path) /\ ~validate_path(params.repo_path)
  THEN "scope_violation"
  ELSE "ok"

\* route_operation, steps 3 of the docstring: the early returns
Validate(capability, action, params) ==
  IF capability = "fs" THEN FsCheck(action, params)
  ELSE IF capability = "git" THEN GitCheck(action, params)
  ELSE "ok"

\* the condition guarding _create_snapshot
NeedsSnapshot(tier, capability, action) ==
  /\ tier \in {1, 2}
  /\ ~(capability = "git" /\ action \in {"rollback", "list_snapshots"})

(***************************************************************************)
(* State.                                                                  *)
(***************************************************************************)
VARIABLES
  nextOpId,               \* uuid4(): the next fresh operation id
  ops,                    \* route_operation calls: locals, position, BrokerResult
  operation_start_times,  \* BrokerRouter._operation_start_times (its keys)
  execution_log,          \* table execution_log, by operation_id
  notification_outbox,    \* table notification_outbox, by id (1..Len)
  notify_enabled,         \* table config, notifications.<chat>.enabled
  worker,                 \* NotificationWorker fields and the tasks it spawned
  pending_by_chat,        \* PostponementManager._pending_by_chat
  timers,                 \* PostponementManager._retry_tasks / _cancel_tasks
  postponed_operation,    \* table postponed_operation, by operation_id
  queries,                \* AgentSession.query calls past add_pending, by operation
  replies,                \* route_to_runtime calls inside consume_resolved
  db_manager,             \* persistence/db.py _db_manager: set, or NULL for None
  raised,                 \* the manager's calls that ended by raising, with their chat
  call,                   \* a function called on its own: its arguments and result
  migration_files,        \* the *.sql files of migrations_dir: name -> content
  tables,                 \* the database's tables other than schema_migrations: name -> rows
  schema_migrations,      \* table schema_migrations: migration_name -> checksum
  migrate,                \* the apply_migrations call: position, locals, how it ended
  config,                 \* the ConfigManager: its two maps, subscribers, calls made
  clarified,              \* by operation: replies resolve accepted, times resumed
  database,               \* a DatabaseManager: _connection, connections, callers
  delivery                \* an outbox with its clock and the order rows were sent in

vars == <<nextOpId, ops, operation_start_times, execution_log, notification_outbox,
          notify_enabled, worker, pending_by_chat, timers, postponed_operation,
          queries, replies, db_manager, raised, call, migration_files, tables,
          schema_migrations, migrate, config, clarified, database, delivery>>

\* what the bot's steps with a database leave alone
migrateVars == <<migration_files, tables, schema_migrations, migrate>>
restButClarified == <<db_manager, raised, call, migrateVars, config, database,
                      delivery>>
restVars == <<restButClarified, clarified>>
brokerVars == <<ops, operation_start_times>>
workerVars == <<worker>>
clarifyVars == <<pending_by_chat, timers, postponed_operation, queries, replies>>

NULL == 0
\* the branch name create_snapshot returns for an operation
SnapshotRef(id) == id

\* persistence/audit.py log_operation_start: INSERT ... status 'in_progress'
\* (ended counts the log_operation_end updates the row has taken)
log_operation_start(id, capability, action, chat, tier) ==
  execution_log @@ (id :> [capability |-> capability, action |-> action,
                           chat_id |-> chat, tier |-> tier,
                           status |-> "in_progress", snapshot_ref |-> NULL,
                           ended |-> 0])

\* mutant: the UPDATE of log_operation_end has no WHERE clause
log_operation_end_every_row(id, status, snapshot_ref) ==
  [i \in DOMAIN execution_log |->
     [execution_log[i] EXCEPT !.status = status, !.snapshot_ref = snapshot_ref,
                              !.ended = @ + 1]]

\* persistence/audit.py log_operation_end: UPDATE ... WHERE operation_id = ?
log_operation_end(id, status, snapshot_ref) ==
  IF id \in DOMAIN execution_log
  THEN [execution_log EXCEPT ![id].status = status, ![id].snapshot_ref = snapshot_ref,
                             ![id].ended = @ + 1]
  ELSE execution_log

\* persistence/notification.py enqueue_notification: INSERT ... 'pending', retry_count 0
enqueue_notification(id, chat) ==
  Append(notification_outbox,
         [operation_id |-> id, chat_id |-> chat, status |-> "pending", due |-> 0,
          retry_count |-> 0, sent_at |-> NULL])

OutboxHasRoom == Len(notification_outbox) < MaxOutbox

(***************************************************************************)
(* BrokerRouter.route_operation, one action per stretch between awaits.    *)
(***************************************************************************)
\* every path the operation targets passes ScopeValidator.validate_path
TargetsValid(capability, params) ==
  IF capability = "fs"
  THEN /\ Has(params.path) => validate_path(params.path)
       /\ params.paths.t = "list" =>
            \A i \in 1..Len(params.paths.items) : validate_path(params.paths.items[i])
  ELSE IF capability = "git"
  THEN Has(params.repo_path) => validate_path(params.repo_path)
  ELSE TRUE

\* mutant: log_operation_start hoisted above the validation block
ReachesAuditStartAlways(verdict) == TRUE

\* log_operation_start is reached only when no early return was taken
ReachesAuditStart(verdict) == verdict = "ok"

\* the frame of a call past validation: the locals later steps read
Frame(req, chat, tier) ==
  [capability |-> req.capability, action |-> req.action, chat_id |-> chat,
   tier |-> tier, pc |-> "started", allowed |-> FALSE, error |-> "none",
   file_path |-> Truthy(req.params.path),
   targets_valid |-> TargetsValid(req.capability, req.params),
   snapshot_ref |-> NULL, snapshot_ran |-> FALSE, snapshot_ok |-> FALSE,
   outcome |-> "none", notification |-> "none", trace |-> <<"in_progress">>]

\* an early return: BrokerResult(allowed=False, tier, error); the frame is gone
Denied(tier, verdict, started) ==
  [capability |-> "-", action |-> "-", chat_id |-> "-",
   tier |-> tier, pc |-> "denied", allowed |-> FALSE, error |-> verdict,
   file_path |-> FALSE, targets_valid |-> FALSE,
   snapshot_ref |-> NULL, snapshot_ran |-> FALSE, snapshot_ok |-> FALSE,
   outcome |-> "none", notification |-> "none",
   trace |-> IF started THEN <<"in_progress">> ELSE <<>>]

\* steps 1-5: operation id, tier, parameter and scope validation, audit start
Route(req, chat) ==
  /\ nextOpId <= MaxOps
  /\ LET id == nextOpId
         tier == classify_tier(req.capability, req.action, count_files(req.params))
         verdict == Validate(req.capability, req.action, req.params)
         started == ReachesAuditStart(verdict)
     IN /\ nextOpId' = id + 1
        /\ ops' = ops @@ (id :> IF verdict = "ok" THEN Frame(req, chat, tier)
                                 ELSE Denied(tier, verdict, started))
        /\ execution_log' = IF started
                            THEN log_operation_start(id, req.capability, req.action,
                                                     chat, tier)
                            ELSE execution_log
        /\ operation_start_times' = IF verdict = "ok"
                                    THEN operation_start_times \cup {id}
                                    ELSE operation_start_times
  /\ UNCHANGED <<restVars, notification_outbox, notify_enabled, workerVars, clarifyVars>>

\* mutant: each handler passes its own error code as the status
EndStatusIsErrorCode(outcome) == outcome

\* the status each branch of route_operation passes to log_operation_end
EndStatus(outcome) == IF outcome = "completed" THEN "completed" ELSE "failed"

\* the snapshot_ref each branch passes to log_operation_end (the three except
\* branches leave the keyword at its default, None)
EndSnapshotRef(outcome, snapshot_ref) ==
  IF outcome = "completed" THEN snapshot_ref ELSE NULL

\* mutant: the asyncio.TimeoutError handler returns without log_operation_end
AuditEndTimeoutUnlogged(id, o, outcome) ==
  /\ execution_log' = IF outcome = "timeout" THEN execution_log
                       ELSE log_operation_end(id, EndStatus(outcome),
                                              EndSnapshotRef(outcome, o.snapshot_ref))
  /\ operation_start_times' = operation_start_times \ {id}
  /\ ops' = [ops EXCEPT ![id] = [o EXCEPT !.pc = "logged", !.outcome = outcome,
                                          !.trace = Append(o.trace, "terminal")]]

\* step 7: _calculate_duration and log_operation_end, in the try body or in
\* the handler of the exception that ended it
AuditEnd(id, o, outcome) ==
  /\ execution_log' = log_operation_end(id, EndStatus(outcome),
                                        EndSnapshotRef(outcome, o.snapshot_ref))
  /\ operation_start_times' = operation_start_times \ {id}
  /\ ops' = [ops EXCEPT ![id] = [o EXCEPT !.pc = "logged", !.outcome = outcome,
                                          !.trace = Append(o.trace, "terminal")]]

\* a broker that goes on to the capability after a snapshot that failed
BeginDespiteSnapshot(id, ok) ==
  /\ id \in DOMAIN ops
  /\ ops[id].pc = "started"
  /\ LET o == ops[id]
         snap == NeedsSnapshot(o.tier, o.capability, o.action)
     IN /\ ok \/ snap
        /\ (snap /\ ok) => o.file_path
        /\ ops' = [ops EXCEPT ![id] =
                     [o EXCEPT !.pc = "executing",
                               !.snapshot_ran = snap,
                               !.snapshot_ok = snap /\ ok,
                               !.snapshot_ref = IF snap /\ ok THEN SnapshotRef(id)
                                                ELSE NULL,
                               !.trace = o.trace
                                         \o (IF snap THEN <<"snapshot">> ELSE <<>>)
                                         \o <<"capability">>]]
  /\ UNCHANGED <<restVars, nextOpId, notification_outbox, notify_enabled, workerVars,
                 clarifyVars, operation_start_times, execution_log>>

\* step 6, first half: _create_snapshot when the tier asks for it. It raises
\* GitCapabilityError on failure (always when params has no path), which the
\* handler logs as the operation's failure; else _execute_capability is
\* entered under asyncio.timeout
Begin(id, ok) ==
  /\ id \in DOMAIN ops
  /\ ops[id].pc = "started"
  /\ LET o == ops[id]
         snap == NeedsSnapshot(o.tier, o.capability, o.action)
         after == [o EXCEPT !.snapshot_ran = snap,
                            !.snapshot_ok = snap /\ ok,
                            !.snapshot_ref = IF snap /\ ok THEN SnapshotRef(id)
                                             ELSE NULL,
                            !.trace = o.trace
                                      \o (IF snap THEN <<"snapshot">> ELSE <<>>)
                                      \o (IF ok THEN <<"capability">> ELSE <<>>)]
     IN /\ ok \/ snap
        /\ (snap /\ ok) => o.file_path
        /\ IF ok
           THEN /\ ops' = [ops EXCEPT ![id] = [after EXCEPT !.pc = "executing"]]
                /\ UNCHANGED <<operation_start_times, execution_log>>
           ELSE AuditEnd(id, after, "capability_error")
  /\ UNCHANGED <<restVars, nextOpId, notification_outbox, notify_enabled, workerVars,
                 clarifyVars>>

Outcomes == {"completed", "timeout", "capability_error", "execution_error"}

\* step 6, second half: the capability returns, times out or raises, and the
\* try body or the matching handler writes the audit end
Execute(id, outcome) ==
  /\ id \in DOMAIN ops
  /\ ops[id].pc = "executing"
  /\ AuditEnd(id, ops[id], outcome)
  /\ UNCHANGED <<restVars, nextOpId, notification_outbox, notify_enabled, workerVars,
                 clarifyVars>>

\* mutant: the notification is enqueued before the audit end is written
CanNotifyEarly(o) == o.pc \in {"executing", "logged"}

\* _enqueue_operation_notification is awaited after log_operation_end
CanNotify(o) == o.pc = "logged"

\* the BrokerResult a call would return if the exception of a failed
\* get_notifications_enabled or enqueue_notification were not caught
ReturnedUnlessEnqueueFailed(o) ==
  [o EXCEPT !.pc = IF o.notification = "enqueue_failed" THEN "raised" ELSE "returned",
            !.chat_id = "-",
            !.file_path = FALSE,
            !.allowed = (o.outcome = "completed") /\ o.notification # "enqueue_failed",
            !.snapshot_ref = IF o.outcome = "completed" THEN o.snapshot_ref ELSE NULL,
            !.error = IF o.outcome = "completed" THEN "none" ELSE o.outcome]

\* the BrokerResult each branch returns; the frame is gone
Returned(o) ==
  [o EXCEPT !.pc = "returned",
            !.chat_id = "-",
            !.file_path = FALSE,
            !.allowed = (o.outcome = "completed"),
            !.snapshot_ref = IF o.outcome = "completed" THEN o.snapshot_ref ELSE NULL,
            !.error = IF o.outcome = "completed" THEN "none" ELSE o.outcome]

\* _enqueue_operation_notification, then return: the row is enqueued when the
\* chat has notifications enabled; get_notifications_enabled or
\* enqueue_notification raising (stored false) is logged and swallowed
NotifyAndReturn(id, stored) ==
  /\ id \in DOMAIN ops
  /\ CanNotify(ops[id])
  /\ stored => notify_enabled[ops[id].chat_id] /\ OutboxHasRoom
  /\ notification_outbox' = IF stored
                            THEN enqueue_notification(id, ops[id].chat_id)
                            ELSE notification_outbox
  /\ ops' = [ops EXCEPT ![id] =
               Returned([@ EXCEPT
                  !.notification = IF stored THEN "enqueued"
                                   ELSE IF notify_enabled[ops[id].chat_id]
                                        THEN "enqueue_failed" ELSE "disabled",
                  !.trace = IF stored THEN Append(@, "outbox") ELSE @])]
  /\ UNCHANGED <<restVars, nextOpId, operation_start_times, execution_log, notify_enabled,
                 workerVars, clarifyVars>>

\* gateway/commands.py /notify on|off: set_notifications_enabled
SetNotify(chat, enabled) ==
  /\ notify_enabled[chat] # enabled
  /\ notify_enabled' = [notify_enabled EXCEPT ![chat] = enabled]
  /\ UNCHANGED <<restVars, nextOpId, brokerVars, execution_log, notification_outbox,
                 workerVars, clarifyVars>>

(***************************************************************************)
(* Initial state and the broker's specification.                           *)
(***************************************************************************)
\* self._task = None
NoTask == 0

\* the bot just constructed: empty tables, nothing in flight
\* DatabaseManager.__init__: nothing opened, nothing cached, no call running
MaxConns == 3
DbCallers == {"worker", "recovery"}
NoConnection ==
  [connection |-> NULL, open |-> {}, made |-> 0, closing |-> NULL,
   calls |-> [c \in DbCallers |-> [pc |-> "idle", conn |-> NULL]]]

\* an empty notification_outbox at time 0, no poll running, nothing sent
MaxQueued == 3
MaxNow == 2
MaxBatch == 2
DeliveryLoops == {1, 2}
DeliveryChats == {"123", "456"}
NothingQueued ==
  [now |-> 0, rows |-> <<>>, batches |-> [t \in DeliveryLoops |-> <<>>],
   sent |-> <<>>, failed |-> FALSE]

BotIdle ==
  /\ nextOpId = 1
  /\ ops = <<>>
  /\ operation_start_times = {}
  /\ execution_log = <<>>
  /\ notification_outbox = <<>>
  /\ notify_enabled = [c \in Chats |-> TRUE]
  /\ worker = [running |-> FALSE, task |-> NoTask, restart |-> FALSE,
               stopping |-> NoTask, tasks |-> <<>>]
  /\ pending_by_chat = <<>>
  /\ timers = [retry |-> {}, cancel |-> {}]
  /\ postponed_operation = <<>>
  /\ queries = <<>>
  /\ replies = {}
  /\ raised = {}
  /\ clarified = <<>>
  /\ database = NoConnection
  /\ delivery = NothingQueued

NoCall == call = [fn |-> "none"]

\* src/config/registry.py REGISTRY, four of its keys
REGISTRY ==
  [k \in {"database.path", "logging.level", "logging.retention_days",
          "observability.http_enabled"} |->
     CASE k = "database.path" ->
            [tier |-> "static", value_type |-> "str",
             default |-> [t |-> "str", v |-> "data/sohnbot.db"]]
       [] k = "logging.level" ->
            [tier |-> "dynamic", value_type |-> "str",
             default |-> [t |-> "str", v |-> "INFO"]]
       [] k = "logging.retention_days" ->
            [tier |-> "dynamic", value_type |-> "int",
             default |-> [t |-> "int", v |-> 90]]
       [] k = "observability.http_enabled" ->
            [tier |-> "dynamic", value_type |-> "bool",
             default |-> [t |-> "bool", v |-> TRUE]]]

get_static_keys == {k \in DOMAIN REGISTRY : REGISTRY[k].tier = "static"}
get_dynamic_keys == {k \in DOMAIN REGISTRY : REGISTRY[k].tier = "dynamic"}

\* initialize_config with no file and no environment: the registry's defaults
ConfigLoaded ==
  [static_config  |-> [k \in get_static_keys |-> REGISTRY[k].default],
   dynamic_config |-> [k \in get_dynamic_keys |-> REGISTRY[k].default],
   subscribers    |-> <<>>,
   notified       |-> <<>>,
   updates        |-> 0,
   outcome        |-> [error |-> "not_called"]]

\* scripts/migrate.py is not running
MigrateIdle == [pc |-> "idle", run |-> 0]
NoMigration ==
  /\ migration_files = <<>>
  /\ tables = <<>>
  /\ schema_migrations = <<>>
  /\ migrate = MigrateIdle

Init ==
  /\ BotIdle
  /\ db_manager = "set"
  /\ NoCall
  /\ config = ConfigLoaded
  /\ NoMigration

Next ==
  \/ \E req \in Requests, chat \in RouteChats : Route(req, chat)
  \/ \E id \in 1..MaxOps, ok \in BOOLEAN : Begin(id, ok)
  \/ \E id \in 1..MaxOps, outcome \in Outcomes : Execute(id, outcome)
  \/ \E id \in 1..MaxOps, stored \in BOOLEAN : NotifyAndReturn(id, stored)
  \/ \E chat \in RouteChats, enabled \in BOOLEAN : SetNotify(chat, enabled)

Spec == Init /\ [][Next]_vars

(***************************************************************************)
(* The broker's contract.                                                  *)
(***************************************************************************)
OpIds == DOMAIN ops
OutboxIds == 1..Len(notification_outbox)
HasOutboxRow(id) == \E i \in OutboxIds : notification_outbox[i].operation_id = id
BrokerTerminal == {"completed", "failed"}

C3_NoAuditWithoutScope ==
  \A id \in OpIds : ops[id].pc # "denied" => ops[id].targets_valid

SnapshotManagement(capability, action) ==
  capability = "git" /\ action \in {"rollback", "list_snapshots", "prune_snapshots"}

\* C4: the snapshot step runs for an operation iff its tier is 1 or 2 and it
\* is not git rollback, list_snapshots or prune_snapshots.
C4_SnapshotIffTierAndNotManagement ==
  \A id \in OpIds :
    ops[id].pc \in {"executing", "logged", "returned"} =>
      (ops[id].snapshot_ran <=>
         (ops[id].tier \in {1, 2}
          /\ ~SnapshotManagement(ops[id].capability, ops[id].action)))

\* C5: for a tier-1/2 operation other than snapshot management, the terminal
\* row, completed or failed, has a snapshot_ref iff the snapshot step succeeded.
C5_SnapshotRefIffSnapshotOk ==
  \A id \in OpIds :
    (/\ id \in DOMAIN execution_log
     /\ execution_log[id].status \in BrokerTerminal
     /\ execution_log[id].tier \in {1, 2}
     /\ ~SnapshotManagement(execution_log[id].capability, execution_log[id].action))
    => (execution_log[id].snapshot_ref # NULL <=> ops[id].snapshot_ok)

Rank(e) ==
  CASE e = "in_progress" -> 1
    [] e = "snapshot" -> 2
    [] e = "capability" -> 3
    [] e = "terminal" -> 4
    [] e = "outbox" -> 5

\* C6: per operation past validation the in_progress row is committed before
\* the capability starts, the terminal row after it, and the outbox row after
\* the terminal row: a running capability has its in_progress row, and an
\* outbox row of the operation implies its row is terminal.
C6_AuditCapabilityOutboxOrder ==
  \A id \in OpIds :
    LET t == ops[id].trace IN
    /\ \A i, j \in 1..Len(t) : i < j => Rank(t[i]) < Rank(t[j])
    /\ ops[id].pc # "denied" => Len(t) > 0 /\ t[1] = "in_progress"
    /\ ops[id].pc = "executing" =>
         id \in DOMAIN execution_log /\ execution_log[id].status = "in_progress"
    /\ HasOutboxRow(id) =>
         id \in DOMAIN execution_log /\ execution_log[id].status \in BrokerTerminal

C6_Witness ==
  \E id \in OpIds :
    /\ ops[id].trace = <<"in_progress", "capability", "terminal", "outbox">>
    /\ HasOutboxRow(id)
    /\ execution_log[id].status = "completed"

(***************************************************************************)
(* The notification outbox and NotificationWorker.  Time is relative: a    *)
(* row's due is created_at - now, floored at 0, and Tick lets a second     *)
(* pass.  Writes of the store are taken to commit.                         *)
(***************************************************************************)
RECURSIVE Pow(_, _)
Pow(b, e) == IF e = 0 THEN 1 ELSE b * Pow(b, e - 1)

\* mark_notification_sent: UPDATE ... SET status = 'sent', sent_at = now
mark_notification_sent(i) ==
  [notification_outbox EXCEPT ![i].status = "sent", ![i].sent_at = 1]

\* mark_notification_failed: UPDATE ... SET status = 'failed', retry_count + 1
mark_notification_failed(i) ==
  [notification_outbox EXCEPT ![i].status = "failed",
                              ![i].retry_count = @ + 1]

\* schedule_notification_retry: UPDATE ... SET status = 'pending',
\* created_at = now + max(0, delay_seconds)
schedule_notification_retry(i, delay_seconds) ==
  [notification_outbox EXCEPT ![i].status = "pending",
                              ![i].due = IF delay_seconds > 0 THEN delay_seconds
                                         ELSE 0]

\* mutant: the poll selects only rows that were never rescheduled
EligibleFirstAttempt(row) == row.status = "pending" /\ row.retry_count = 0

\* get_pending_notifications: WHERE status = 'pending' AND created_at <= now
Eligible(row) == row.status = "pending" /\ row.due <= 0

RECURSIVE SelectEligible(_)
SelectEligible(i) ==
  IF i > Len(notification_outbox) THEN <<>>
  ELSE (IF Eligible(notification_outbox[i])
        THEN <<[id |-> i, chat_id |-> notification_outbox[i].chat_id,
                retry_count |-> notification_outbox[i].retry_count]>>
        ELSE <<>>) \o SelectEligible(i + 1)

\* get_pending_notifications(limit): the rows as read at the poll.  Rows of
\* equal eligibility are listed by id; the order within a batch decides
\* nothing below, every row of the batch being processed on its own
get_pending_notifications(limit) ==
  LET all == SelectEligible(1)
  IN IF Len(all) <= limit THEN all ELSE SubSeq(all, 1, limit)

\* mutant: a failed send is never rescheduled
RetryNever(retry_count) == FALSE

\* _process_notification: if retry_count < self.max_retries
RetryAllowed(retry_count) == retry_count < MaxRetries

\* task objects in use: not done, or still referenced by _task or by a stop()
TaskIds == 1..MaxTasks
TaskDone(t) == t \in DOMAIN worker.tasks /\ worker.tasks[t].pc = "done"
TaskLive(t) == t \in DOMAIN worker.tasks /\ worker.tasks[t].pc # "done"
FreeTaskIds == TaskIds \ DOMAIN worker.tasks

\* drops the finished task objects nothing refers to any more
Collect(w) ==
  LET keep == {t \in DOMAIN w.tasks :
                 w.tasks[t].pc # "done" \/ t = w.task \/ t = w.stopping}
  IN [w EXCEPT !.tasks = [t \in keep |-> w.tasks[t]]]

\* _spawn_worker_task: self._task = asyncio.create_task(self._run()); by
\* records the caller, start or _restart_after_delay
spawn_worker_task(w, t, by) ==
  [w EXCEPT !.task = t,
            !.tasks = [x \in DOMAIN w.tasks \cup {t} |->
                         IF x = t THEN [pc |-> "poll", batch |-> <<>>, by |-> by]
                         ELSE w.tasks[x]]]

\* mutant: the done callback schedules no restart
on_worker_done_ignored(w) == w

\* _on_worker_done, run as task t finishes
on_worker_done(w) ==
  IF ~w.running THEN w
  ELSE IF w.restart THEN w
  ELSE [w EXCEPT !.restart = TRUE]

otherThanOutbox == <<nextOpId, brokerVars, execution_log, notify_enabled, clarifyVars>>

\* a producer (_enqueue_operation_notification, _send_retry_notification)
\* calls enqueue_notification for a chat
Enqueue(chat) ==
  /\ OutboxHasRoom
  /\ notification_outbox' = enqueue_notification(Len(notification_outbox) + 1, chat)
  /\ UNCHANGED <<restVars, otherThanOutbox, worker>>

\* the task object a spawn creates takes the least identity not in use
NewTask(w) == CHOOSE t \in TaskIds \ DOMAIN w.tasks :
                \A u \in TaskIds \ DOMAIN w.tasks : t <= u

\* NotificationWorker.start
Start ==
  /\ ~(worker.running /\ worker.task # NoTask /\ TaskLive(worker.task))
  /\ LET w == Collect([worker EXCEPT !.running = TRUE, !.task = NoTask])
     IN /\ TaskIds \ DOMAIN w.tasks # {}
        /\ worker' = spawn_worker_task(w, NewTask(w), "start")
  /\ UNCHANGED <<restVars, otherThanOutbox, notification_outbox>>

\* NotificationWorker.stop up to `await self._task`; awaiting a finished task
\* returns at once
StopBegin ==
  /\ worker.stopping = NoTask
  /\ worker.running \/ worker.restart \/ worker.task # NoTask
  /\ LET w == [worker EXCEPT !.running = FALSE, !.restart = FALSE]
     IN worker' = IF worker.task = NoTask THEN w
                  ELSE IF TaskDone(worker.task)
                  THEN Collect([w EXCEPT !.task = NoTask])
                  ELSE [w EXCEPT !.stopping = worker.task]
  /\ UNCHANGED <<restVars, otherThanOutbox, notification_outbox>>

\* NotificationWorker.stop resumed by the end of the task it awaits
StopJoin ==
  /\ worker.stopping # NoTask
  /\ TaskDone(worker.stopping)
  /\ worker' = Collect([worker EXCEPT !.stopping = NoTask, !.task = NoTask])
  /\ UNCHANGED <<restVars, otherThanOutbox, notification_outbox>>

\* _restart_after_delay once its sleep is over
RestartFire ==
  /\ worker.restart
  /\ LET w == [worker EXCEPT !.restart = FALSE]
     IN IF worker.running /\ (worker.task = NoTask \/ TaskDone(worker.task))
        THEN LET c == Collect([w EXCEPT !.task = NoTask])
             IN /\ TaskIds \ DOMAIN c.tasks # {}
                /\ worker' = spawn_worker_task(c, NewTask(c), "restart")
        ELSE worker' = w
  /\ UNCHANGED <<restVars, otherThanOutbox, notification_outbox>>

\* the end of task t: its pc, then the done callback
Finish(t) ==
  Collect(on_worker_done([worker EXCEPT !.tasks[t].pc = "done",
                                         !.tasks[t].batch = <<>>]))

\* _run: `while self._running`, then _process_batch reads the pending rows
Poll(t) ==
  /\ TaskLive(t)
  /\ worker.tasks[t].pc = "poll"
  /\ worker' = IF ~worker.running THEN Finish(t)
               ELSE LET pending == get_pending_notifications(BatchSize)
                    IN [worker EXCEPT
                          !.tasks[t].pc = IF pending = <<>> THEN "sleep" ELSE "send",
                          !.tasks[t].batch = pending]
  /\ UNCHANGED <<restVars, otherThanOutbox, notification_outbox>>

\* the for loop of _process_batch moves to the next row of the batch
Advance(t) ==
  LET rest == Tail(worker.tasks[t].batch)
  IN [worker EXCEPT !.tasks[t].pc = IF rest = <<>> THEN "sleep" ELSE "send",
                     !.tasks[t].batch = rest]

\* _process_notification up to its first write: the chat_id cast, the send and
\* mark_notification_sent or mark_notification_failed
Deliver(t, success) ==
  /\ TaskLive(t)
  /\ worker.tasks[t].pc = "send"
  /\ LET notif == Head(worker.tasks[t].batch)
     IN IF ~Castable(notif.chat_id)
        THEN /\ success
             /\ notification_outbox' = mark_notification_failed(notif.id)
             /\ worker' = Advance(t)
        ELSE IF success
        THEN /\ notification_outbox' = mark_notification_sent(notif.id)
             /\ worker' = Advance(t)
        ELSE /\ notification_outbox' = mark_notification_failed(notif.id)
             /\ worker' = IF RetryAllowed(notif.retry_count + 1)
                          THEN [worker EXCEPT !.tasks[t].pc = "retry"]
                          ELSE Advance(t)
  /\ UNCHANGED <<restVars, otherThanOutbox>>

\* _process_notification after a failed send: schedule_notification_retry
Reschedule(t) ==
  /\ TaskLive(t)
  /\ worker.tasks[t].pc = "retry"
  /\ LET notif == Head(worker.tasks[t].batch)
     IN notification_outbox' =
          schedule_notification_retry(notif.id,
                                      Pow(PollInterval, notif.retry_count + 1))
  /\ worker' = Advance(t)
  /\ UNCHANGED <<restVars, otherThanOutbox>>

\* asyncio.sleep(self.poll_interval_seconds) is over
Wake(t) ==
  /\ TaskLive(t)
  /\ worker.tasks[t].pc = "sleep"
  /\ worker' = [worker EXCEPT !.tasks[t].pc = "poll"]
  /\ UNCHANGED <<restVars, otherThanOutbox, notification_outbox>>

\* the task ends abnormally: the poll or the transport raises, or the task is
\* cancelled in its sleep
Crash(t) ==
  /\ TaskLive(t)
  /\ worker.tasks[t].pc \in {"poll", "send", "sleep"}
  /\ worker' = Finish(t)
  /\ UNCHANGED <<restVars, otherThanOutbox, notification_outbox>>

\* a second passes
Tick ==
  /\ \E i \in 1..Len(notification_outbox) : notification_outbox[i].due > 0
  /\ notification_outbox' =
       [i \in 1..Len(notification_outbox) |->
          [notification_outbox[i] EXCEPT !.due = IF @ > 0 THEN @ - 1 ELSE 0]]
  /\ UNCHANGED <<restVars, otherThanOutbox, worker>>

WorkerStep(t) ==
  \/ Poll(t)
  \/ \E success \in BOOLEAN : Deliver(t, success)
  \/ Reschedule(t)
  \/ Wake(t)

NextOutbox ==
  \/ \E chat \in Chats : Enqueue(chat)
  \/ Start
  \/ StopBegin
  \/ StopJoin
  \/ RestartFire
  \/ \E t \in TaskIds : WorkerStep(t)
  \/ \E t \in TaskIds : Crash(t)
  \/ Tick

SpecOutbox == Init /\ [][NextOutbox]_vars

\* the worker's scheduling: time passes, a task that keeps reaching a step
\* takes it in the end (a poll or a transport that raises does not raise for
\* ever), a restart that is due fires, and a stop whose task has ended resumes
OutboxFairness ==
  /\ WF_vars(Tick)
  /\ WF_vars(RestartFire)
  /\ WF_vars(StopJoin)
  /\ \A t \in TaskIds :
       /\ SF_vars(Poll(t))
       /\ SF_vars(\E success \in BOOLEAN : Deliver(t, success))
       /\ SF_vars(Wake(t))
       /\ WF_vars(Reschedule(t))

SpecOutboxLive == SpecOutbox /\ OutboxFairness

(***************************************************************************)
(* The outbox's contract.                                                  *)
(***************************************************************************)
RowIds == 1..Len(notification_outbox)
Exhausted(row) == row.status = "failed" /\ row.retry_count >= MaxRetries
Settled(row) == row.status = "sent" \/ Exhausted(row)
\* some task stands between mark_notification_failed and
\* schedule_notification_retry for row i
BeingRescheduled(i) ==
  \E t \in DOMAIN worker.tasks :
    worker.tasks[t].pc = "retry" /\ Head(worker.tasks[t].batch).id = i
StartedAndNotStopped == <>[](worker.running)

C9_SentIsTerminal ==
  [][\A i \in RowIds :
       notification_outbox[i].status = "sent" =>
         notification_outbox'[i].status = "sent"]_vars

PendingClarification(id, postponed, response, retry_message_sent) ==
  [operation_id |-> id, postponed |-> postponed, response |-> response,
   retry_message_sent |-> retry_message_sent]

\* an UPDATE of the row of id (none when the row is gone); updated_at = now
\* moves the row to the end
RECURSIVE Without(_, _)
Without(rows, id) ==
  IF rows = <<>> THEN <<>>
  ELSE (IF Head(rows).operation_id = id THEN <<>> ELSE <<Head(rows)>>)
       \o Without(Tail(rows), id)

\* delete_operation
delete_operation(id) == Without(postponed_operation, id)

UpdateRow(rows, id, status) ==
  IF \E i \in 1..Len(rows) : rows[i].operation_id = id
  THEN LET i == CHOOSE k \in 1..Len(rows) : rows[k].operation_id = id
       IN Append(Without(rows, id), [rows[i] EXCEPT !.status = status])
  ELSE rows

\* mark_retry_enqueued: UPDATE ... SET retry_enqueued = 1
mark_retry_enqueued(id) ==
  IF \E i \in 1..Len(postponed_operation) : postponed_operation[i].operation_id = id
  THEN LET i == CHOOSE k \in 1..Len(postponed_operation) :
                  postponed_operation[k].operation_id = id
       IN Append(Without(postponed_operation, id),
                 [postponed_operation[i] EXCEPT !.retry_enqueued = TRUE])
  ELSE postponed_operation

\* save_pending_operation: INSERT ... status 'waiting'
save_pending_operation(id, chat) ==
  Append(postponed_operation,
         [operation_id |-> id, chat_id |-> chat, status |-> "waiting",
          retry_enqueued |-> FALSE])

\* get_active_operation_by_chat: the latest row of the chat among waiting,
\* postponed and resolved, as a set: empty when there is none (LIMIT 1)
get_active_operation_by_chat(chat) ==
  LET hits == {i \in 1..Len(postponed_operation) :
                 /\ postponed_operation[i].chat_id = chat
                 /\ postponed_operation[i].status \in
                      {"waiting", "postponed", "resolved"}}
  IN IF hits = {} THEN {}
     ELSE {postponed_operation[CHOOSE i \in hits : \A j \in hits : j <= i]}

\* PostponementManager.has_pending
has_pending(chat) ==
  \/ chat \in DOMAIN pending_by_chat
  \/ \E row \in get_active_operation_by_chat(chat) :
       row.status \in {"waiting", "postponed"}

\* dict.pop(key, None)
Pop(dict, key) == [k \in DOMAIN dict \ {key} |-> dict[k]]

\* _cancel_task on both timer tables
cancel_tasks(id) ==
  [retry |-> {t \in timers.retry : t.operation_id # id},
   cancel |-> {t \in timers.cancel : t.operation_id # id}]

Timer(id, chat) == [operation_id |-> id, chat_id |-> chat]
Timers == {Timer(id, chat) : id \in 1..MaxOps, chat \in Chats}

\* mutant: resolving a postponed clarification completes its row
AfterClarifiedQueryCompleted(id) == log_operation_end(id, "completed", NULL)

\* query(skip_ambiguity_check=True) for the clarified prompt skips the block
\* that writes the audit rows
AfterClarifiedQuery(id) == execution_log

otherThanClarify == <<brokerVars, notify_enabled, workerVars>>

\* the shared connection runs statements in the order they were submitted:
\* one submitted after the DELETE of a consume_resolved still in flight
\* takes effect after it
DeleteQueued == replies # {}

\* dict[key] = value
Put(dict, key, value) ==
  [k \in DOMAIN dict \cup {key} |-> IF k = key THEN value ELSE dict[k]]

\* a query's frame: its chat, its position, whether the event of the
\* PendingClarification it created is set, and the operation it postpones
Query(chat, pc, response, target) ==
  [chat_id |-> chat, pc |-> pc, response |-> response, target |-> target]

\* MessageRouter.route_to_runtime finds nothing pending for the chat and
\* AgentSession.query, on an ambiguous prompt, draws the operation id and
\* awaits log_operation_start
Clarify(chat) ==
  /\ nextOpId <= MaxOps
  /\ ~DeleteQueued
  /\ ~has_pending(chat)
  /\ LET id == nextOpId
     IN /\ nextOpId' = id + 1
        /\ execution_log' = log_operation_start(id, "runtime", "clarification",
                                                chat, 0)
        /\ queries' = Put(queries, id, Query(chat, "adding", FALSE, NULL))
  /\ UNCHANGED <<restVars, otherThanClarify, notification_outbox, timers, replies,
                 pending_by_chat, postponed_operation>>

\* the query goes on: add_pending (the chat's entry is replaced and the row
\* saved), the chat_id cast (the query returns when it fails), the
\* clarification message, and wait_for_clarification on its own event
ClarifyAdd(id) ==
  /\ id \in DOMAIN queries
  /\ queries[id].pc = "adding"
  /\ ~DeleteQueued
  /\ pending_by_chat' = Put(pending_by_chat, queries[id].chat_id,
                            PendingClarification(id, FALSE, FALSE, FALSE))
  /\ postponed_operation' = save_pending_operation(id, queries[id].chat_id)
  /\ queries' = IF Castable(queries[id].chat_id)
                THEN [queries EXCEPT ![id].pc = "waiting"]
                ELSE Pop(queries, id)
  /\ UNCHANGED <<restVars, otherThanClarify, nextOpId, execution_log, notification_outbox,
                 timers, replies>>

\* the replies resolve returned the clarification for, and the runs of the
\* clarified prompt, counted by operation; 2 stands for two or more
Count(id) == IF id \in DOMAIN clarified THEN clarified[id]
             ELSE [accepted |-> 0, resumed |-> 0]
Once(n) == IF n < 2 THEN n + 1 ELSE 2
Accepted(id) == Put(clarified, id, [Count(id) EXCEPT !.accepted = Once(@)])
Resumed(ids) ==
  [id \in DOMAIN clarified \cup ids |->
     IF id \in ids THEN [Count(id) EXCEPT !.resumed = Once(@)] ELSE clarified[id]]

\* MessageRouter.route_to_runtime for a chat with something pending: resolve
\* (the response, the event, mark_operation_resolved) and, for a clarification
\* found postponed, consume_resolved up to its delete: the pop and the cancel
\* of both timers
Reply(chat) ==
  /\ ~DeleteQueued
  /\ has_pending(chat)
  /\ chat \in DOMAIN pending_by_chat
  /\ LET pending == pending_by_chat[chat]
         id == pending.operation_id
     IN /\ postponed_operation' = UpdateRow(postponed_operation, id, "resolved")
        /\ queries' = IF id \in DOMAIN queries
                      THEN [queries EXCEPT ![id].response = TRUE]
                      ELSE queries
        /\ IF pending.postponed
           THEN /\ pending_by_chat' = Pop(pending_by_chat, chat)
                /\ timers' = cancel_tasks(id)
                /\ replies' = replies \cup {id}
           ELSE /\ pending_by_chat' = [pending_by_chat EXCEPT ![chat].response = TRUE]
                /\ UNCHANGED <<timers, replies>>
  /\ UNCHANGED <<restButClarified, otherThanClarify, nextOpId, notification_outbox, execution_log>>
  /\ clarified' = Accepted(pending_by_chat[chat].operation_id)

\* consume_resolved ends: delete_operation; route_to_runtime then runs the
\* clarified query
ReplyConsume(id) ==
  /\ id \in replies
  /\ replies' = replies \ {id}
  /\ postponed_operation' = delete_operation(id)
  /\ execution_log' = AfterClarifiedQuery(id)
  /\ UNCHANGED <<restButClarified, otherThanClarify, nextOpId, notification_outbox, queries,
                 pending_by_chat, timers>>
  /\ clarified' = Resumed({id})

\* consume_resolved(chat) as the resumed query sees it: the set of operation
\* ids it returns a clarification with a response for (empty for None or an
\* empty response): the chat's entry, else the chat's resolved row
Consumed(chat) ==
  IF chat \in DOMAIN pending_by_chat
  THEN (IF pending_by_chat[chat].response
        THEN {pending_by_chat[chat].operation_id} ELSE {})
  ELSE {row.operation_id : row \in {r \in get_active_operation_by_chat(chat) :
                                      r.status = "resolved"}}

\* what consume_resolved(chat) pops, cancels and deletes: the chat's entry,
\* whatever its operation, else the chat's resolved row
Removed(chat) ==
  IF chat \in DOMAIN pending_by_chat
  THEN {pending_by_chat[chat].operation_id}
  ELSE {row.operation_id : row \in {r \in get_active_operation_by_chat(chat) :
                                      r.status = "resolved"}}

RECURSIVE WithoutAll(_, _)
WithoutAll(rows, ids) ==
  IF rows = <<>> THEN <<>>
  ELSE (IF Head(rows).operation_id \in ids THEN <<>> ELSE <<Head(rows)>>)
       \o WithoutAll(Tail(rows), ids)

\* the query resumes from wait_for_clarification, its event set:
\* consume_resolved(chat), then log_operation_end(status="completed") under
\* its own operation id unless consume_resolved returned nothing usable
QueryResume(id) ==
  /\ ~DeleteQueued
  /\ id \in DOMAIN queries
  /\ queries[id].pc = "waiting"
  /\ queries[id].response
  /\ LET chat == queries[id].chat_id
         gone == Removed(chat)
     IN /\ pending_by_chat' = Pop(pending_by_chat, chat)
        /\ timers' = [retry |-> {t \in timers.retry : t.operation_id \notin gone},
                      cancel |-> {t \in timers.cancel : t.operation_id \notin gone}]
        /\ postponed_operation' = WithoutAll(postponed_operation, gone)
        /\ execution_log' = IF Consumed(chat) # {}
                            THEN log_operation_end(id, "completed", NULL)
                            ELSE execution_log
  /\ queries' = Pop(queries, id)
  /\ UNCHANGED <<restButClarified, otherThanClarify, nextOpId, notification_outbox, replies>>
  /\ clarified' = Resumed(Consumed(queries[id].chat_id))

\* get_pending(chat) as the timed-out query sees it: the chat's entry, else
\* one rebuilt from the chat's waiting or postponed row; empty for None
Pending(chat) ==
  IF chat \in DOMAIN pending_by_chat
  THEN {pending_by_chat[chat]}
  ELSE {PendingClarification(row.operation_id, row.status = "postponed", FALSE,
                             row.retry_enqueued) :
          row \in {r \in get_active_operation_by_chat(chat) :
                     r.status \in {"waiting", "postponed"}}}

\* wait_for_clarification times out, the query's event not set: get_pending,
\* then postpone_and_schedule(pending) up to the return of
\* log_operation_end(pending.operation_id, status="postponed")
QueryTimeout(id) ==
  /\ id \in DOMAIN queries
  /\ queries[id].pc = "waiting"
  /\ ~queries[id].response
  /\ LET chat == queries[id].chat_id
     IN IF Pending(chat) = {}
        THEN /\ queries' = Pop(queries, id)
             /\ UNCHANGED <<pending_by_chat, execution_log>>
        ELSE LET pending == CHOOSE p \in Pending(chat) : TRUE
             IN /\ pending_by_chat' = Put(pending_by_chat, chat,
                                          [pending EXCEPT !.postponed = TRUE])
                /\ execution_log' = log_operation_end(pending.operation_id,
                                                      "postponed", NULL)
                /\ queries' = [queries EXCEPT ![id].pc = "postponing",
                                              ![id].target = pending.operation_id]
  /\ UNCHANGED <<restVars, otherThanClarify, nextOpId, notification_outbox, replies,
                 postponed_operation, timers>>

\* postpone_and_schedule ends: mark_operation_postponed, then both timers
Postpone(id) ==
  /\ id \in DOMAIN queries
  /\ queries[id].pc = "postponing"
  /\ LET op == queries[id].target
         t == Timer(op, queries[id].chat_id)
     IN /\ postponed_operation' = UpdateRow(postponed_operation, op, "postponed")
        /\ timers' = [retry |-> timers.retry \cup {t},
                      cancel |-> timers.cancel \cup {t}]
  /\ queries' = Pop(queries, id)
  /\ UNCHANGED <<restVars, otherThanClarify, nextOpId, notification_outbox, replies,
                 pending_by_chat, execution_log>>

\* the rows the outbox can hold when a reminder is added
MaxReminders == 2
ReminderHasRoom == Len(notification_outbox) < MaxReminders

\* _send_retry_notification once its sleep is over.  enqueue_notification and
\* mark_retry_enqueued are two commits: marked is FALSE when the second is
\* not made (the write raises, or the process is killed between the two)
RetryFire(t, marked) ==
  /\ ~DeleteQueued
  /\ t \in timers.retry
  /\ timers' = [timers EXCEPT !.retry = @ \ {t}]
  /\ IF has_pending(t.chat_id)
     THEN /\ ReminderHasRoom
          /\ notification_outbox' = enqueue_notification(t.operation_id, t.chat_id)
          /\ pending_by_chat' =
               IF /\ t.chat_id \in DOMAIN pending_by_chat
                  /\ pending_by_chat[t.chat_id].operation_id = t.operation_id
               THEN [pending_by_chat EXCEPT ![t.chat_id].retry_message_sent = TRUE]
               ELSE pending_by_chat
          /\ postponed_operation' = IF marked THEN mark_retry_enqueued(t.operation_id)
                                    ELSE postponed_operation
     ELSE /\ marked
          /\ UNCHANGED <<notification_outbox, pending_by_chat, postponed_operation>>
  /\ UNCHANGED <<restVars, otherThanClarify, nextOpId, execution_log, queries, replies>>

\* _cancel_if_unresolved once its sleep is over
CancelFire(t) ==
  /\ ~DeleteQueued
  /\ t \in timers.cancel
  /\ timers' = [timers EXCEPT !.cancel = @ \ {t}]
  /\ IF /\ has_pending(t.chat_id)
        /\ t.chat_id \in DOMAIN pending_by_chat
        /\ pending_by_chat[t.chat_id].operation_id = t.operation_id
     THEN /\ pending_by_chat' = Pop(pending_by_chat, t.chat_id)
          /\ execution_log' = log_operation_end(t.operation_id, "cancelled", NULL)
          /\ postponed_operation' =
               UpdateRow(postponed_operation, t.operation_id, "cancelled")
     ELSE UNCHANGED <<pending_by_chat, execution_log, postponed_operation>>
  /\ UNCHANGED <<restVars, otherThanClarify, nextOpId, notification_outbox, queries,
                 replies>>

\* list_active_operations: the waiting and postponed rows, oldest update first
list_active_operations ==
  SelectSeq(postponed_operation, LAMBDA row : row.status \in {"waiting", "postponed"})

RECURSIVE MarkAllPostponed(_, _)
MarkAllPostponed(rows, active) ==
  IF active = <<>> THEN rows
  ELSE MarkAllPostponed(IF Head(active).status = "waiting"
                        THEN UpdateRow(rows, Head(active).operation_id, "postponed")
                        ELSE rows,
                        Tail(active))

\* PostponementManager.recover_pending on the rows the store kept
recover_pending ==
  LET rows == list_active_operations
      chats == {rows[i].chat_id : i \in 1..Len(rows)}
      last(chat) == rows[CHOOSE i \in 1..Len(rows) :
                           /\ rows[i].chat_id = chat
                           /\ \A j \in 1..Len(rows) : rows[j].chat_id = chat => j <= i]
  IN /\ pending_by_chat' =
          [chat \in chats |->
             PendingClarification(last(chat).operation_id, TRUE, FALSE,
                                  last(chat).retry_enqueued)]
     /\ postponed_operation' = MarkAllPostponed(postponed_operation, rows)
     /\ timers' =
          [retry |-> {Timer(rows[i].operation_id, rows[i].chat_id) :
                        i \in {k \in 1..Len(rows) : ~rows[k].retry_enqueued}},
           cancel |-> {Timer(rows[i].operation_id, rows[i].chat_id) :
                        i \in 1..Len(rows)}]

\* the process stops and starts again: frames, timers and in-memory tables
\* are gone, the tables of the store stay, AgentSession.initialize runs
\* recover_pending
Restart ==
  /\ ops' = [id \in DOMAIN ops |->
               IF ops[id].pc \in {"started", "executing", "logged"}
               THEN [ops[id] EXCEPT !.pc = "lost"]
               ELSE ops[id]]
  /\ operation_start_times' = {}
  /\ queries' = <<>>
  /\ replies' = {}
  /\ recover_pending
  /\ UNCHANGED <<restVars, nextOpId, execution_log, notification_outbox, notify_enabled,
                 workerVars>>

NextLifecycle ==
  \/ \E req \in Requests, chat \in RouteChats : Route(req, chat)
  \/ \E id \in 1..MaxOps, ok \in BOOLEAN : Begin(id, ok)
  \/ \E id \in 1..MaxOps, outcome \in Outcomes : Execute(id, outcome)
  \/ \E id \in 1..MaxOps, stored \in BOOLEAN : NotifyAndReturn(id, stored)
  \/ \E chat \in Chats : Clarify(chat)
  \/ \E id \in 1..MaxOps : ClarifyAdd(id)
  \/ \E chat \in Chats : Reply(chat)
  \/ \E id \in 1..MaxOps : ReplyConsume(id)
  \/ \E id \in 1..MaxOps : QueryResume(id)
  \/ \E id \in 1..MaxOps : QueryTimeout(id)
  \/ \E id \in 1..MaxOps : Postpone(id)
  \/ \E t \in Timers, marked \in BOOLEAN : RetryFire(t, marked)
  \/ \E t \in Timers : CancelFire(t)
  \/ Restart

SpecLifecycle == Init /\ [][NextLifecycle]_vars

\* the event loop runs a timer whose sleep is over and resumes a coroutine
\* whose awaited write has returned
LifecycleFairness ==
  /\ \A t \in Timers : WF_vars(CancelFire(t))
  /\ \A id \in 1..MaxOps : WF_vars(ReplyConsume(id)) /\ WF_vars(Postpone(id))

SpecLifecycleLive == SpecLifecycle /\ LifecycleFairness

(***************************************************************************)
(* The audit row's lifecycle.                                              *)
(***************************************************************************)
StatusKept(id) == execution_log'[id].status = execution_log[id].status

C11_RetryCountBounded ==
  \A i \in RowIds : notification_outbox[i].retry_count <= MaxRetries

\* the rows a task read at a poll step
Polled(t) ==
  IF /\ t \in DOMAIN worker.tasks
     /\ t \in DOMAIN worker'.tasks
     /\ worker.tasks[t].pc = "poll"
     /\ worker'.tasks[t].pc = "send"
  THEN {worker'.tasks[t].batch[k].id : k \in 1..Len(worker'.tasks[t].batch)}
  ELSE {}

\* C12: a failed send that brings a row's retry_count to r < maxRetries puts
\* the row back to pending with created_at = now + pollIntervalS^r, and no
\* poll returns a row before its created_at.
C12_BackoffIsPollIntervalPowerRetryCount ==
  [][/\ \A i \in RowIds :
          (notification_outbox[i].status = "failed"
           /\ notification_outbox'[i].status = "pending")
          => /\ notification_outbox'[i].retry_count < MaxRetries
             /\ notification_outbox'[i].due
                  = Pow(PollInterval, notification_outbox'[i].retry_count)
     /\ \A t \in TaskIds : \A i \in Polled(t) : notification_outbox[i].due = 0]_vars

NoLiveTask == \A t \in TaskIds : ~TaskLive(t)
Spawned(t) == ~TaskLive(t) /\ t \in DOMAIN worker'.tasks /\ worker'.tasks[t].pc # "done"

\* C13: when the worker task has ended while the worker is running, a new
\* task is started by the restart (unless the worker is stopped first);
\* while the worker is stopped no restart is scheduled and none is carried
\* out, a task being spawned then only by start.
C13_RestartWhenRunningOnly ==
  /\ (worker.running /\ NoLiveTask) ~> (~worker.running \/ ~NoLiveTask)
  /\ [](~worker.running => ~worker.restart)
  /\ [][\A t \in TaskIds :
          Spawned(t) => /\ worker'.running
                        /\ worker'.tasks[t].by = "restart" => worker.running]_vars

C13_Witness ==
  \E t \in DOMAIN worker.tasks :
    /\ worker.running
    /\ worker.task = t
    /\ worker.tasks[t].by = "restart"
    /\ worker.tasks[t].pc = "send"

\* no call of stop is in flight and the worker has not been started since
Stopped == ~worker.running /\ worker.stopping = NoTask

\* C14: stop always returns: it clears the running flag and waits for the
\* task; once it has returned and until the next start, no worker task and
\* no restart task is active, so no further message is sent.
C14_StopTerminatesAndQuiesces ==
  /\ (worker.stopping # NoTask) ~> (worker.stopping = NoTask)
  /\ [](Stopped => NoLiveTask /\ ~worker.restart /\ worker.task = NoTask)

(***************************************************************************)
(* The postponement's contract.                                            *)
(***************************************************************************)
StoredIds(rows) == {rows[i].operation_id : i \in 1..Len(rows)}
StoredRow(rows, id) == rows[CHOOSE i \in 1..Len(rows) : rows[i].operation_id = id]
LifecycleSteps == {<<"waiting", "resolved">>, <<"waiting", "postponed">>,
                   <<"postponed", "resolved">>, <<"postponed", "cancelled">>}

\* C15: the status of a postponed_operation row changes only along
\* waiting -> resolved, waiting -> postponed, postponed -> resolved and
\* postponed -> cancelled; resolved and cancelled are never left.
C15_StoreFollowsLifecycle ==
  [][\A id \in StoredIds(postponed_operation) \cap StoredIds(postponed_operation') :
       LET old == StoredRow(postponed_operation, id).status
           new == StoredRow(postponed_operation', id).status
       IN old # new => <<old, new>> \in LifecycleSteps]_vars

ActiveRows(chat) ==
  {i \in 1..Len(postponed_operation) :
     /\ postponed_operation[i].chat_id = chat
     /\ postponed_operation[i].status \in {"waiting", "postponed"}}

\* C16: for each chat at most one postponed_operation row is waiting or
\* postponed.
C16_OneActiveRowPerChat ==
  \A chat \in Chats : Cardinality(ActiveRows(chat)) <= 1

C16_Witness ==
  \E chat \in Chats :
    /\ Cardinality(ActiveRows(chat)) = 1
    /\ \E i \in 1..Len(postponed_operation) :
         /\ postponed_operation[i].chat_id = chat
         /\ postponed_operation[i].status \in {"resolved", "cancelled"}


\* this step enqueues the reminder of clarification id
Reminded(id) ==
  /\ Len(notification_outbox') = Len(notification_outbox) + 1
  /\ notification_outbox'[Len(notification_outbox')].operation_id = id
  /\ id \in DOMAIN execution_log
  /\ execution_log[id].capability = "runtime"

\* the store holds clarification id waiting or postponed
StillPending(id) ==
  /\ id \in StoredIds(postponed_operation)
  /\ StoredRow(postponed_operation, id).status \in {"waiting", "postponed"}

\* C17: a reminder is enqueued for an operation only while that operation is
\* itself pending and unresolved: never for one resolved, consumed or
\* cancelled, whatever else is pending for its chat.
C17_ReminderOnlyWhilePending ==
  [][\A id \in 1..MaxOps : Reminded(id) => StillPending(id)]_vars

\* the store holds clarification id postponed
StoredPostponed(id) ==
  /\ id \in StoredIds(postponed_operation)
  /\ StoredRow(postponed_operation, id).status = "postponed"

\* C18: no clarification stays postponed forever: a postponed row that is
\* not resolved is eventually marked cancelled, restarts included.
C18_PostponedEventuallyCancelled ==
  \A id \in 1..MaxOps : StoredPostponed(id) ~> ~StoredPostponed(id)

\* the operations consume_resolved has returned for: its row is deleted (the
\* row of an operation is stored before anything can consume it)
WasConsumed(id) ==
  /\ id \in DOMAIN execution_log
  /\ execution_log[id].capability = "runtime"
  /\ id \notin DOMAIN queries \/ queries[id].pc # "adding"
  /\ id \notin StoredIds(postponed_operation)
  /\ id \notin replies

\* C19: once consume_resolved has returned for an operation, its entry and
\* its row are gone, neither of its timers is armed, and no later step
\* enqueues its reminder, records its cancellation or writes its audit row.
C19_NothingAfterConsume ==
  /\ [](\A id \in 1..MaxOps : WasConsumed(id) =>
          /\ \A chat \in DOMAIN pending_by_chat :
               pending_by_chat[chat].operation_id # id
          /\ \A t \in timers.retry \cup timers.cancel : t.operation_id # id)
  /\ [][\A id \in 1..MaxOps : WasConsumed(id) =>
          /\ ~Reminded(id)
          /\ execution_log'[id] = execution_log[id]]_vars

\* the rows recover_pending reads: waiting or postponed before the restart
WasActive(id) ==
  /\ id \in StoredIds(postponed_operation)
  /\ StoredRow(postponed_operation, id).status \in {"waiting", "postponed"}

\* after the step, row id has its entry in memory
Restored(id) ==
  LET chat == StoredRow(postponed_operation', id).chat_id
  IN /\ chat \in DOMAIN pending_by_chat'
     /\ pending_by_chat'[chat].operation_id = id

\* after the step, both timers of row id are armed
Rearmed(id) ==
  LET t == Timer(id, StoredRow(postponed_operation', id).chat_id)
  IN t \in timers'.retry /\ t \in timers'.cancel

\* after the step, row id shows what postpone_and_schedule records: the row
\* postponed and the audit row postponed
AsPostponed(id) ==
  /\ StoredRow(postponed_operation', id).status = "postponed"
  /\ execution_log'[id].status = "postponed"

\* C20: recover_pending at startup gives every waiting or postponed row an
\* in-memory entry and both timers, and leaves a row that was waiting as
\* postpone_and_schedule would: postponed, with the same recorded effects.
C20_RecoverRestoresAndPostpones ==
  [][Restart =>
       \A id \in 1..MaxOps :
         WasActive(id) =>
           /\ id \in StoredIds(postponed_operation')
           /\ Restored(id)
           /\ Rearmed(id)
           /\ StoredRow(postponed_operation, id).status = "waiting"
                => AsPostponed(id)]_vars

(***************************************************************************)
(* PostponementManager called with no database manager set: every         *)
(* persistence function starts with get_db(), which raises RuntimeError.   *)
(***************************************************************************)
\* get_db() raises RuntimeError("Database manager not initialized")
NoDb == db_manager = NULL

\* the _*_safely wrappers: the write, or a warning when get_db raises
Safely(rows) == IF NoDb THEN postponed_operation ELSE rows

\* a call made outside any try: the calls the manager makes to
\* log_operation_end and enqueue_notification
RaisesIn(method, chat) == IF NoDb THEN raised \cup {<<method, chat>>} ELSE raised

managerVars == <<nextOpId, pending_by_chat, timers, postponed_operation, raised,
                 execution_log>>
otherThanManager == <<brokerVars, notification_outbox, notify_enabled, workerVars,
                      queries, replies, db_manager, call, migrateVars, config, clarified,
                      database, delivery>>

\* the number of add_pending calls made on the manager
MaxAdds == 3

\* PostponementManager.add_pending with a fresh operation id
add_pending(chat) ==
  /\ nextOpId <= MaxAdds
  /\ nextOpId' = nextOpId + 1
  /\ pending_by_chat' = Put(pending_by_chat, chat,
                            PendingClarification(nextOpId, FALSE, FALSE, FALSE))
  /\ postponed_operation' = Safely(save_pending_operation(nextOpId, chat))
  /\ UNCHANGED <<otherThanManager, timers, raised, execution_log>>

\* PostponementManager.resolve
resolve(chat) ==
  /\ chat \in DOMAIN pending_by_chat
  /\ pending_by_chat' = [pending_by_chat EXCEPT ![chat].response = TRUE]
  /\ postponed_operation' =
       Safely(UpdateRow(postponed_operation, pending_by_chat[chat].operation_id,
                        "resolved"))
  /\ UNCHANGED <<otherThanManager, nextOpId, timers, raised, execution_log>>

\* PostponementManager.postpone_and_schedule on the chat's entry, after
\* wait_for_clarification timed out: the flag, log_operation_end, and when
\* that returns _mark_postponed_safely and the two timers
postpone_and_schedule(chat) ==
  /\ chat \in DOMAIN pending_by_chat
  /\ ~pending_by_chat[chat].postponed
  /\ pending_by_chat' = [pending_by_chat EXCEPT ![chat].postponed = TRUE]
  /\ raised' = RaisesIn("postpone_and_schedule", chat)
  /\ LET id == pending_by_chat[chat].operation_id
     IN IF NoDb
        THEN UNCHANGED <<execution_log, postponed_operation, timers>>
        ELSE /\ execution_log' = log_operation_end(id, "postponed", NULL)
             /\ postponed_operation' = UpdateRow(postponed_operation, id, "postponed")
             /\ timers' = [retry |-> timers.retry \cup {Timer(id, chat)},
                           cancel |-> timers.cancel \cup {Timer(id, chat)}]
  /\ UNCHANGED <<otherThanManager, nextOpId>>

\* PostponementManager.consume_resolved
consume_resolved(chat) ==
  /\ chat \in DOMAIN pending_by_chat
  /\ pending_by_chat' = Pop(pending_by_chat, chat)
  /\ timers' = cancel_tasks(pending_by_chat[chat].operation_id)
  /\ postponed_operation' =
       Safely(delete_operation(pending_by_chat[chat].operation_id))
  /\ UNCHANGED <<otherThanManager, nextOpId, raised, execution_log>>

\* a new PostponementManager and its recover_pending: _list_active_safely
\* returns [] when get_db raises
recover_pending_no_db ==
  /\ NoDb
  /\ pending_by_chat # <<>>
  /\ pending_by_chat' = <<>>
  /\ timers' = [retry |-> {}, cancel |-> {}]
  /\ UNCHANGED <<otherThanManager, nextOpId, raised, execution_log,
                 postponed_operation>>

InitNoDb ==
  /\ BotIdle
  /\ db_manager = NULL
  /\ NoCall
  /\ config = ConfigLoaded
  /\ NoMigration

NextNoDb ==
  \/ \E chat \in Chats : add_pending(chat)
  \/ \E chat \in Chats : resolve(chat)
  \/ \E chat \in Chats : postpone_and_schedule(chat)
  \/ \E chat \in Chats : consume_resolved(chat)
  \/ recover_pending_no_db

SpecNoDb == InitNoDb /\ [][NextNoDb]_vars

\* C21: with no database configured no PostponementManager operation
\* raises: the persistence failure is logged and the in-memory lifecycle
\* goes on.
C21_NoDbNeverRaises == NoDb => raised = {}

(***************************************************************************)
(* The broker's contract, continued.                                       *)
(***************************************************************************)
\* the call of id leaves _enqueue_operation_notification in this step
Notifies(id) ==
  /\ id \in OpIds
  /\ ops[id].pc = "logged"
  /\ ops'[id].pc # "logged"

\* C22: whether the notification was enqueued, skipped or failed, the call
\* returns the BrokerResult its outcome gives and the audit row committed
\* before stays as it is; nothing is raised.
C22_EnqueueFailureLeavesResult ==
  [][\A id \in 1..MaxOps :
       Notifies(id) =>
         /\ ops'[id].pc = "returned"
         /\ ops'[id].allowed = (ops[id].outcome = "completed")
         /\ ops'[id].error = (IF ops[id].outcome = "completed" THEN "none"
                              ELSE ops[id].outcome)
         /\ ops'[id].snapshot_ref = (IF ops[id].outcome = "completed"
                                     THEN ops[id].snapshot_ref ELSE NULL)
         /\ execution_log' = execution_log]_vars

C22_Witness ==
  \E id \in OpIds :
    /\ ops[id].pc = "returned"
    /\ ops[id].notification = "enqueue_failed"
    /\ ops[id].allowed
    /\ ~HasOutboxRow(id)
    /\ execution_log[id].status = "completed"

\* the call of id is past the handler of asyncio.TimeoutError
TimedOut(id) == ops[id].pc \in {"logged", "returned"} /\ ops[id].outcome = "timeout"

Written(id) ==
  /\ id \in DOMAIN execution_log'
  /\ id \in DOMAIN execution_log => execution_log'[id] # execution_log[id]

\* this step is one of the route_operation call of id
BrokerStep(id) ==
  /\ id \in DOMAIN ops'
  /\ id \in DOMAIN ops => ops'[id] # ops[id]

\* C24: only the broker's route_operation inserts or updates a row of
\* execution_log.
C24_OnlyBrokerWritesAudit ==
  [][\A id \in 1..MaxOps : Written(id) => BrokerStep(id)]_vars

\* C24 as the program keeps it: the rows of fs and git operations are written
\* by the route_operation call of that operation only; the rows of capability
\* runtime (action clarification) are written by AgentSession.query and
\* PostponementManager only, never by the broker.
C24_BrokerAndRuntimeWriteTheirOwn ==
  [][\A id \in 1..MaxOps :
       Written(id) =>
         IF execution_log'[id].capability = "runtime"
         THEN /\ ops' = ops
              /\ execution_log'[id].action = "clarification"
         ELSE BrokerStep(id)]_vars

C24_Witness ==
  \E a, b \in DOMAIN execution_log :
    /\ execution_log[a].capability = "runtime"
    /\ execution_log[a].status = "cancelled"
    /\ execution_log[b].capability # "runtime"
    /\ execution_log[b].status = "completed"

(***************************************************************************)
(* ScopeValidator on path strings.  A string is a sequence of tokens: the  *)
(* separators "/" and "\\" and the names between them.                     *)
(***************************************************************************)
\* os.getcwd(), the base Path.resolve gives a relative path
Cwd == <<"srv">>

\* the longest segment list and the names the strings are made of
MaxSegs == 3
Names == {"..", "~", "root", "link", "etc", "a"}

RECURSIVE SegLists(_)
SegLists(n) ==
  IF n = 0 THEN {<<>>}
  ELSE SegLists(n - 1) \cup {Append(l, x) : l \in {k \in SegLists(n - 1) : Len(k) = n - 1},
                                             x \in Names}

\* sep.join(segs), after a leading sep when absolute
RECURSIVE Join(_, _)
Join(segs, sep) ==
  IF segs = <<>> THEN <<>>
  ELSE IF Len(segs) = 1 THEN segs
  ELSE <<Head(segs), sep>> \o Join(Tail(segs), sep)

PathString(segs, sep, absolute) ==
  (IF absolute THEN <<sep>> ELSE <<>>) \o Join(segs, sep)

PathStrings ==
  {PathString(segs, sep, absolute) :
     segs \in SegLists(MaxSegs), sep \in {"/", "\\"}, absolute \in BOOLEAN}

\* the lists of roots a validator is configured with
RootStrings == {<<"/", "root">>, <<"~", "/", "Projects">>, <<"/", "root", "/", "link">>,
                <<"\\", "root", "\\", "a">>}
RootLists == (SUBSET RootStrings) \ {{}}

\* path.replace("\\", "/")
RECURSIVE Slashes(_)
Slashes(s) ==
  IF s = <<>> THEN <<>>
  ELSE <<IF Head(s) = "\\" THEN "/" ELSE Head(s)>> \o Slashes(Tail(s))

\* the name of a segment that holds a backslash: a file name like any other
Backslashed == "a\\b"

\* the segments pathlib splits a string into at "/": (done, current) where
\* current is the pieces of the segment being read
RECURSIVE Split(_, _, _)
Split(s, done, current) ==
  LET closed == IF current = <<>> THEN done
                ELSE Append(done, IF Len(current) = 1 THEN current[1] ELSE Backslashed)
  IN IF s = <<>> THEN closed
     ELSE IF Head(s) = "/" THEN Split(Tail(s), closed, <<>>)
     ELSE Split(Tail(s), done, Append(current, Head(s)))

Segments(s) == Split(s, <<>>, <<>>)

\* mutant: the backslashes and ~ are handled and nothing is resolved
normalize_path_unresolved(s) ==
  LET t == Slashes(s)
      segs == Segments(t)
  IN IF t # <<>> /\ Head(t) = "~" THEN Home \o Tail(segs)
     ELSE IF t # <<>> /\ Head(t) = "/" THEN segs
     ELSE Cwd \o segs

\* ScopeValidator._normalize_path on a string: replace the backslashes,
\* expanduser a leading ~, resolve from / or from the working directory
normalize_path(s) ==
  LET t == Slashes(s)
      segs == Segments(t)
  IN IF t # <<>> /\ Head(t) = "~" THEN ResolveFrom(<<>>, Home \o Tail(segs))
     ELSE IF t # <<>> /\ Head(t) = "/" THEN ResolveFrom(<<>>, segs)
     ELSE ResolveFrom(Cwd, segs)

\* ScopeValidator(roots).validate_path(s)
validate_path_string(roots, s) ==
  IF s = <<>> THEN FALSE
  ELSE \E root \in roots : RelativeTo(normalize_path(s), normalize_path(root))

otherThanCall == <<nextOpId, brokerVars, execution_log, notification_outbox,
                   notify_enabled, workerVars, clarifyVars, db_manager, raised,
                   migrateVars, config, clarified, database, delivery>>

\* ScopeValidator(roots).validate_path(s) called on its own
ValidatePath(roots, s) ==
  /\ call.fn = "none"
  /\ call' = [fn |-> "validate_path", roots |-> roots, path |-> s,
              result |-> validate_path_string(roots, s)]
  /\ UNCHANGED otherThanCall

NextScope == \E roots \in RootLists, s \in PathStrings : ValidatePath(roots, s)

SpecScope == Init /\ [][NextScope]_vars

\* what the name says the string denotes: the backslashes read as
\* separators, ~ as the home directory, every .. and link followed
Canonical(s) ==
  LET t == Slashes(s)
      segs == Segments(t)
      from == IF t # <<>> /\ Head(t) = "~" THEN Home
              ELSE IF t # <<>> /\ Head(t) = "/" THEN <<>> ELSE Cwd
      rest == IF t # <<>> /\ Head(t) = "~" THEN Tail(segs) ELSE segs
  IN ResolveFrom(from, rest)

\* C25: validate_path accepts a path only if its canonical form lies under
\* the canonical form of one of the configured roots; a path whose ..
\* segments or links lead outside every root is refused.
C25_AcceptedOnlyUnderRoot ==
  call.fn = "validate_path" /\ call.result =>
    \E root \in call.roots : RelativeTo(Canonical(call.path), Canonical(root))

C25_Witness ==
  /\ call.fn = "validate_path"
  /\ call.result
  /\ call.roots = {<<"/", "root">>}
  /\ call.path = <<"\\", "etc", "\\", "..", "\\", "root">>


(***************************************************************************)
(* scripts/migrate.py: the migration runner.  The files of migrations_dir  *)
(* are named in lexical order; a file's content is one of a few scripts.   *)
(***************************************************************************)
MaxRuns == 3

\* sorted(migrations_dir.glob("*.sql")) over the names a directory may hold
SqlNames == <<"0001_init.sql", "0002_seed.sql", "schema_migrations.sql">>
Contents == {"create", "seed", "broken"}

\* the statements of a script, in order
Statements(content) ==
  CASE content = "create" -> <<[op |-> "create", table |-> "t"]>>
    [] content = "seed"   -> <<[op |-> "create_if_not_exists", table |-> "t"],
                               [op |-> "insert", table |-> "t"]>>
    [] content = "broken" -> <<[op |-> "create_if_not_exists", table |-> "u"],
                               [op |-> "insert", table |-> "u"],
                               [op |-> "syntax_error", table |-> "u"]>>

\* hashlib.sha256 of the file's bytes: distinct contents, distinct digests
calculate_checksum(content) == <<"sha256", content>>

\* the directories a run may find: any subset of the names, any contents
Directories ==
  UNION {[names -> Contents] : names \in SUBSET {SqlNames[i] : i \in DOMAIN SqlNames}}

\* discover_migrations: the names in lexical order without schema_migrations.sql
discover_migrations(files) ==
  SelectSeq(SqlNames, LAMBDA n : n \in DOMAIN files /\ n # "schema_migrations.sql")

\* sqlite runs one statement: the tables after it, or a failure
Runs(stmt, tbls) ==
  CASE stmt.op = "create" -> stmt.table \notin DOMAIN tbls
    [] stmt.op = "create_if_not_exists" -> TRUE
    [] stmt.op = "insert" -> stmt.table \in DOMAIN tbls
    [] stmt.op = "syntax_error" -> FALSE

After(stmt, tbls) ==
  CASE stmt.op \in {"create", "create_if_not_exists"} ->
         IF stmt.table \in DOMAIN tbls THEN tbls ELSE tbls @@ (stmt.table :> 0)
    [] stmt.op = "insert" -> [tbls EXCEPT ![stmt.table] = @ + 1]
    [] OTHER -> tbls

\* conn.executescript: every statement commits on its own (the script holds
\* no BEGIN), so the statements before a failing one stay in the database
RECURSIVE executescript(_, _)
executescript(stmts, tbls) ==
  IF stmts = <<>> THEN [ok |-> TRUE, tables |-> tbls]
  ELSE IF ~Runs(Head(stmts), tbls) THEN [ok |-> FALSE, tables |-> tbls]
  ELSE executescript(Tail(stmts), After(Head(stmts), tbls))

\* a recorded migration whose file no longer has the recorded checksum
Tampered(files, rows) ==
  {n \in DOMAIN files \cap DOMAIN rows :
     n # "schema_migrations.sql" /\ calculate_checksum(files[n]) # rows[n]}

otherThanMigrate == <<nextOpId, brokerVars, execution_log, notification_outbox,
                      notify_enabled, workerVars, clarifyVars, db_manager, raised,
                      call, config, clarified, database, delivery>>

Running == migrate.pc = "loop"

\* somebody edits, adds or removes a migration file between two runs
WriteFile(name, content) ==
  /\ ~Running
  /\ migration_files' = [n \in DOMAIN migration_files \cup {name} |->
                           IF n = name THEN content ELSE migration_files[n]]
  /\ migration_files' # migration_files
  /\ UNCHANGED <<tables, schema_migrations, migrate, otherThanMigrate>>

\* apply_migrations up to the loop: the table is there, applied is read once,
\* the directory is listed; an empty directory returns at once
ApplyMigrations ==
  /\ ~Running
  /\ migrate.run < MaxRuns
  /\ LET migrations == discover_migrations(migration_files)
     IN  migrate' = [pc       |-> IF migrations = <<>> THEN "returned" ELSE "loop",
                     run      |-> migrate.run + 1,
                     applied  |-> schema_migrations,
                     todo     |-> migrations,
                     executed |-> {},
                     error    |-> "none",
                     files    |-> migration_files,
                     before   |-> [tables |-> tables, rows |-> schema_migrations],
                     step     |-> [tables |-> tables, rows |-> schema_migrations],
                     same_set |-> /\ migrate.pc # "idle"
                                  /\ migrate.files = migration_files]
  /\ UNCHANGED <<migration_files, tables, schema_migrations, otherThanMigrate>>

\* what the loop does when the recorded checksum differs
OnMismatchSkip == "skip"
OnMismatch == "raise"

\* one turn of the loop over the migrations
MigrateStep ==
  /\ Running
  /\ LET name     == Head(migrate.todo)
         rest     == Tail(migrate.todo)
         checksum == calculate_checksum(migration_files[name])
         onward   == [migrate EXCEPT !.todo = rest,
                                     !.pc = IF rest = <<>> THEN "returned" ELSE "loop"]
     IN  IF name \in DOMAIN migrate.applied
         THEN /\ migrate' = IF checksum # migrate.applied[name] /\ OnMismatch = "raise"
                            THEN [migrate EXCEPT !.pc = "raised",
                                                 !.error = "migration_tampered"]
                            ELSE onward
              /\ UNCHANGED <<tables, schema_migrations>>
         ELSE LET r == executescript(Statements(migration_files[name]), tables)
              IN  /\ tables' = r.tables
                  /\ schema_migrations' =
                       IF r.ok THEN schema_migrations @@ (name :> checksum)
                       ELSE schema_migrations
                  /\ migrate' = IF r.ok
                                THEN [onward EXCEPT !.executed = @ \cup {name},
                                                    !.step = [tables |-> tables,
                                                              rows |-> schema_migrations]]
                                ELSE [migrate EXCEPT !.pc = "raised",
                                                     !.error = "script_failed",
                                                     !.executed = @ \cup {name},
                                                     !.step = [tables |-> tables,
                                                               rows |-> schema_migrations]]
  /\ UNCHANGED <<migration_files, otherThanMigrate>>

InitMigrate ==
  /\ BotIdle
  /\ db_manager = "set"
  /\ NoCall
  /\ config = ConfigLoaded
  /\ migration_files \in Directories
  /\ tables = <<>>
  /\ schema_migrations = <<>>
  /\ migrate = MigrateIdle

NextMigrate ==
  \/ \E name \in {SqlNames[i] : i \in DOMAIN SqlNames}, content \in Contents :
       WriteFile(name, content)
  \/ ApplyMigrations
  \/ MigrateStep

SpecMigrate == InitMigrate /\ [][NextMigrate]_vars

Ended == migrate.pc \in {"returned", "raised"}

\* the run stopped at the mismatch: every row added by this run belongs to a
\* script this run executed, and nothing from the mismatching file on was run
StoppedAtMismatch ==
  migrate.pc = "raised" /\ migrate.error = "migration_tampered" =>
    /\ Head(migrate.todo) \in Tampered(migrate.files, migrate.applied)
    /\ \A n \in DOMAIN schema_migrations \ DOMAIN migrate.applied :
         n \in migrate.executed
    /\ \A i \in DOMAIN migrate.todo : migrate.todo[i] \notin migrate.executed

RemainingNames == {migrate.todo[i] : i \in 2..Len(migrate.todo)}

\* C26 as stated: a run over a directory in which a recorded migration's
\* checksum differs from the stored one ends with the tamper error, and makes
\* no change to the database once the mismatch is detected.
C26_TamperedRunRaisesTamper ==
  /\ Ended /\ Tampered(migrate.files, migrate.applied) # {} =>
       migrate.pc = "raised" /\ migrate.error = "migration_tampered"
  /\ StoppedAtMismatch

\* C26, amended: such a run never returns normally; it ends with the tamper
\* error unless the script of an unrecorded migration that sorts before every
\* mismatching file failed first; once the mismatch is detected nothing is
\* applied and no schema_migrations row is added or changed.
C26_TamperStopsTheRun ==
  /\ Ended /\ Tampered(migrate.files, migrate.applied) # {} =>
       /\ migrate.pc = "raised"
       /\ \/ migrate.error = "migration_tampered"
          \/ /\ migrate.error = "script_failed"
             /\ Head(migrate.todo) \notin DOMAIN migrate.applied
             /\ Tampered(migrate.files, migrate.applied) \subseteq RemainingNames
  /\ StoppedAtMismatch

C26_Witness ==
  /\ migrate.pc = "raised"
  /\ migrate.error = "migration_tampered"
  /\ migrate.executed # {}
  /\ Len(migrate.todo) = 1

\* C27: a run over the same migration files as the run before it leaves the
\* database as that run left it: it executes no script, and adds or changes
\* no schema_migrations row and no table.
C27_SecondRunChangesNothing ==
  Ended /\ migrate.same_set =>
    /\ migrate.executed = {}
    /\ schema_migrations = migrate.before.rows
    /\ tables = migrate.before.tables

(***************************************************************************)
(* ConfigManager.update_dynamic_config and its subscribers.                *)
(***************************************************************************)
MaxUpdates == 3
MaxSubscribers == 2

ConfigKeys == DOMAIN REGISTRY \cup {"no.such_key"}
ConfigValues ==
  {[t |-> "int", v |-> 0], [t |-> "int", v |-> 30], [t |-> "int", v |-> 366],
   [t |-> "str", v |-> "DEBUG"], [t |-> "str", v |-> "LOUD"],
   [t |-> "str", v |-> "new/path.db"],
   [t |-> "bool", v |-> TRUE], [t |-> "bool", v |-> FALSE]}
Callbacks == {"on_update", "on_update_raises"}

\* isinstance(value, value_type): a bool is an int, an int is not a bool
IsInstance(value, value_type) ==
  \/ value.t = value_type
  \/ value.t = "bool" /\ value_type = "int"

\* the number a value compares as: True is 1, False is 0
AsNumber(value) == IF value.t = "bool" THEN (IF value.v THEN 1 ELSE 0) ELSE value.v

min_value(key) == IF key = "logging.retention_days" THEN 1 ELSE NULL
max_value(key) == IF key = "logging.retention_days" THEN 365 ELSE NULL

\* the key's custom validator, where it has one
validator(key, value) ==
  key = "logging.level" =>
    value.v \in {"DEBUG", "INFO", "WARNING", "ERROR", "CRITICAL"}

\* validate_config_value that lets every value through
validate_nothing(key, value) == TRUE

\* validate_config_value: registered, of the key's type, in range, validator
validate_config_value(key, value) ==
  /\ key \in DOMAIN REGISTRY
  /\ IsInstance(value, REGISTRY[key].value_type)
  /\ value.t \in {"int", "bool"} =>
       /\ min_value(key) # NULL => AsNumber(value) >= min_value(key)
       /\ max_value(key) # NULL => AsNumber(value) <= max_value(key)
  /\ validator(key, value)

otherThanConfig == <<nextOpId, brokerVars, execution_log, notification_outbox,
                     notify_enabled, workerVars, clarifyVars, db_manager, raised,
                     call, migrateVars, clarified, database, delivery>>

\* ConfigManager.subscribe
Subscribe(callback) ==
  /\ Len(config.subscribers) < MaxSubscribers
  /\ config' = [config EXCEPT !.subscribers = Append(@, callback)]
  /\ UNCHANGED otherThanConfig

\* _notify_subscribers: every subscriber is called in registration order; one
\* that raises is logged and the next is called
Notifications(key, value) ==
  [i \in DOMAIN config.subscribers |->
     [subscriber |-> config.subscribers[i], key |-> key, value |-> value]]

\* update_dynamic_config(key, value), with the state it started from
Update(key, value) ==
  /\ config.updates < MaxUpdates
  /\ LET error == IF key \notin DOMAIN REGISTRY THEN "not_in_registry"
                  ELSE IF REGISTRY[key].tier # "dynamic" THEN "static_update_refused"
                  ELSE IF ~validate_config_value(key, value) THEN "validation_failed"
                  ELSE "none"
         outcome == [error |-> error, key |-> key, value |-> value,
                     before |-> [static_config  |-> config.static_config,
                                 dynamic_config |-> config.dynamic_config,
                                 notified       |-> config.notified]]
     IN  config' =
           IF error # "none"
           THEN [config EXCEPT !.updates = @ + 1, !.outcome = outcome]
           ELSE [config EXCEPT !.updates = @ + 1, !.outcome = outcome,
                               !.dynamic_config[key] = value,
                               !.notified = @ \o Notifications(key, value)]
  /\ UNCHANGED otherThanConfig

NextConfig ==
  \/ \E callback \in Callbacks : Subscribe(callback)
  \/ \E key \in ConfigKeys, value \in ConfigValues : Update(key, value)

SpecConfig == Init /\ [][NextConfig]_vars

Refused == config.outcome.error \in {"static_update_refused", "validation_failed"}

\* C28: an update of a static key fails with static_update_refused and an
\* update of a dynamic key with a value validation rejects fails with
\* validation_failed; a failed update leaves both maps as they were and calls
\* no subscriber; the static map is the loaded one after any updates.
C28_RefusedUpdateChangesNothing ==
  /\ config.static_config = ConfigLoaded.static_config
  /\ config.outcome.error # "not_called" =>
       LET o == config.outcome
       IN  /\ o.key \in get_static_keys => o.error = "static_update_refused"
           /\ o.key \in get_dynamic_keys /\ ~validate_config_value(o.key, o.value) =>
                o.error = "validation_failed"
           /\ o.key \in get_dynamic_keys /\ ~IsInstance(o.value, REGISTRY[o.key].value_type) =>
                o.error = "validation_failed"
           /\ o.error # "none" =>
                /\ config.static_config = o.before.static_config
                /\ config.dynamic_config = o.before.dynamic_config
                /\ config.notified = o.before.notified

C28_Witness ==
  /\ Refused
  /\ config.outcome.error = "validation_failed"
  /\ config.subscribers # <<>>
  /\ config.notified # <<>>
  /\ \E k \in get_dynamic_keys : config.dynamic_config[k] # REGISTRY[k].default

\* a routed git commit, checkout or prune_snapshots whose params hold an
\* in-scope repo_path and no path
GitWrite(o) ==
  /\ o.capability = "git"
  /\ o.action \in {"commit", "checkout", "prune_snapshots"}
  /\ o.targets_valid
  /\ o.tier = classify_tier("git", o.action, 0)

ReachedCapability(o) == \E i \in DOMAIN o.trace : o.trace[i] = "capability"

\* C29: a git commit, checkout or prune_snapshots routed with a valid in-scope
\* repo_path reaches its capability and, when that completes, returns
\* allowed=true with the execution_log row completed; checkout and
\* prune_snapshots run without a snapshot being attempted.
C29_GitWritesSucceed ==
  \A id \in DOMAIN ops :
    ops[id].pc = "returned" /\ GitWrite(ops[id]) =>
      /\ ReachedCapability(ops[id])
      /\ ops[id].action # "commit" => ~ops[id].snapshot_ran
      /\ ops[id].outcome = "completed" =>
           ops[id].allowed /\ execution_log[id].status = "completed"

(***************************************************************************)
(* classify_tier called on its own, over every triple of the bounds.       *)
(***************************************************************************)
MaxFileCount == 3
Capabilities == {"fs", "git", "web", "profiles", "sched"}
ClassifiedActions == FsActions \cup GitActions \cup {"lint", "create_job"}

ClassifyTier(capability, action, file_count) ==
  /\ call.fn = "none"
  /\ call' = [fn |-> "classify_tier", capability |-> capability, action |-> action,
              file_count |-> file_count,
              result |-> classify_tier(capability, action, file_count)]
  /\ UNCHANGED otherThanCall

NextClassify ==
  \E capability \in Capabilities, action \in ClassifiedActions,
     file_count \in 0..MaxFileCount :
    ClassifyTier(capability, action, file_count)

SpecClassify == Init /\ [][NextClassify]_vars

Classified == call.fn = "classify_tier"

ReadOnlyPairs == {<<"fs", "read">>, <<"fs", "list">>, <<"fs", "search">>,
                  <<"git", "status">>, <<"git", "diff">>, <<"web", "search">>,
                  <<"profiles", "lint">>}
SingleFilePairs == {<<"fs", "apply_patch">>, <<"git", "commit">>, <<"git", "checkout">>}

LiveTasks == {t \in TaskIds : TaskLive(t)}

\* C32: at most one polling loop of the worker is live at any time, and no
\* outbox row is held in the batches of two live loops.
C32_OnePollingLoop ==
  /\ Cardinality(LiveTasks) <= 1
  /\ \A t, u \in LiveTasks :
       t # u =>
         \A i \in DOMAIN worker.tasks[t].batch, j \in DOMAIN worker.tasks[u].batch :
           worker.tasks[t].batch[i].id # worker.tasks[u].batch[j].id

\* a reply resolve accepted for the operation still has something to resume
\* it: the chat's entry holding it, or the consume_resolved in flight
Outstanding(id) == Count(id).accepted > Count(id).resumed
Resumable(id) ==
  \/ id \in replies
  \/ \E chat \in DOMAIN pending_by_chat :
       /\ pending_by_chat[chat].operation_id = id
       /\ pending_by_chat[chat].response

\* C33: every reply resolve accepted for a pending operation resumes the
\* original request once: no operation's clarified prompt is run twice, no
\* second reply replaces one not yet resumed, and an accepted reply not yet
\* resumed is never left with nothing that will resume it.
C33_ReplyResumedExactlyOnce ==
  \A id \in DOMAIN clarified :
    /\ clarified[id].resumed <= 1
    /\ clarified[id].accepted <= clarified[id].resumed + 1
    /\ Outstanding(id) => Resumable(id)

SnapshotFailed(o) == o.snapshot_ran /\ ~o.snapshot_ok

\* C34: when the snapshot step of an operation fails, its capability is never
\* entered, its execution_log row ends failed, and the call returns
\* allowed=false with the error the snapshot raised.
C34_FailedSnapshotStopsOperation ==
  \A id \in DOMAIN ops :
    SnapshotFailed(ops[id]) =>
      /\ ops[id].tier \in {1, 2}
      /\ ~ReachedCapability(ops[id])
      /\ ops[id].pc \in {"logged", "returned"}
      /\ ops[id].outcome = "capability_error"
      /\ execution_log[id].status = "failed"
      /\ ops[id].pc = "returned" =>
           ~ops[id].allowed /\ ops[id].error = "capability_error"

C34_Witness ==
  \E id \in DOMAIN ops :
    /\ SnapshotFailed(ops[id])
    /\ ops[id].pc = "returned"
    /\ ops[id].capability = "fs"
    /\ ops[id].tier = 1

\* C35: a migration whose script fails part-way leaves nothing behind: the
\* tables and schema_migrations are as they were before the script started;
\* a row of schema_migrations added by a run belongs to a script that ran to
\* its end.
C35_MigrationAllOrNothing ==
  /\ migrate.pc = "raised" /\ migrate.error = "script_failed" =>
       /\ tables = migrate.step.tables
       /\ schema_migrations = migrate.step.rows
  /\ migrate.pc # "idle" =>
       \A n \in DOMAIN schema_migrations \ DOMAIN migrate.applied :
         /\ n \in migrate.executed
         /\ ~(migrate.pc = "raised" /\ Head(migrate.todo) = n)

\* ---------------------------------------------------------------------------
\* DatabaseManager (persistence/db.py): the cached connection
\* ---------------------------------------------------------------------------
otherThanDatabase == <<nextOpId, brokerVars, execution_log, notification_outbox,
                       notify_enabled, workerVars, clarifyVars, db_manager, raised,
                       call, migrateVars, config, clarified, delivery>>

\* get_connection up to its first await that opens something: the cached
\* handle is returned at once; otherwise aiosqlite.connect opens a connection
\* of the caller's own and the pragmas are still to be awaited
GetConnection(c) ==
  /\ database.calls[c].pc # "configuring"
  /\ IF database.connection # NULL
       THEN database' = [database EXCEPT
              !.calls[c] = [pc |-> "returned", conn |-> database.connection]]
       ELSE /\ database.made < MaxConns
            /\ database' = [database EXCEPT
                 !.made = @ + 1,
                 !.open = @ \cup {database.made + 1},
                 !.calls[c] = [pc |-> "configuring", conn |-> database.made + 1]]
  /\ UNCHANGED otherThanDatabase

\* the rest of get_connection: the pragmas were awaited; on success the
\* connection is cached and returned, on a failure it is closed and the
\* exception raised
Configured(c, ok) ==
  /\ database.calls[c].pc = "configuring"
  /\ database' =
       IF ok
         THEN [database EXCEPT
                 !.connection = database.calls[c].conn,
                 !.calls[c].pc = "returned"]
         ELSE [database EXCEPT
                 !.open = @ \ {database.calls[c].conn},
                 !.calls[c] = [pc |-> "raised", conn |-> NULL]]
  /\ UNCHANGED otherThanDatabase

\* close up to its await: the cached connection is being closed
CloseBegin ==
  /\ database.closing = NULL
  /\ database.connection # NULL
  /\ database' = [database EXCEPT !.closing = database.connection]
  /\ UNCHANGED otherThanDatabase

\* close after its await: the connection is closed and the cache emptied
CloseEnd ==
  /\ database.closing # NULL
  /\ database' = [database EXCEPT
       !.open = @ \ {database.closing},
       !.connection = NULL,
       !.closing = NULL]
  /\ UNCHANGED otherThanDatabase

NextDatabase ==
  \/ \E c \in DbCallers : GetConnection(c)
  \/ \E c \in DbCallers, ok \in BOOLEAN : Configured(c, ok)
  \/ CloseBegin
  \/ CloseEnd

SpecDatabase == Init /\ [][NextDatabase]_vars

\* the handles callers were given that are still open
Held == {database.calls[c].conn :
           c \in {d \in DbCallers : database.calls[d].pc = "returned"}} \cap database.open

\* the connections some running call is still configuring
Configuring == {database.calls[c].conn :
                  c \in {d \in DbCallers : database.calls[d].pc = "configuring"}}

\* C36: a DatabaseManager has at most one connection open; every handle a
\* caller was given and that is not closed is the cached one; every open
\* connection is the cached one, or is still being configured or closed.
C36_OneConnection ==
  /\ Cardinality(database.open) <= 1
  /\ Held \subseteq {database.connection}
  /\ database.open \subseteq
       ({database.connection, database.closing} \cup Configuring)

\* ---------------------------------------------------------------------------
\* The order of delivery: the outbox with created_at as the clock wrote it,
\* the polls of the worker's loops and the order in
\* which rows are first sent (send_message returned True)
\* ---------------------------------------------------------------------------
otherThanDelivery == <<nextOpId, brokerVars, execution_log, notification_outbox,
                       notify_enabled, workerVars, clarifyVars, db_manager, raised,
                       call, migrateVars, config, clarified, database>>

\* mutant: ORDER BY created_at DESC
Newer(a, b) ==
  \/ delivery.rows[a].created_at > delivery.rows[b].created_at
  \/ delivery.rows[a].created_at = delivery.rows[b].created_at /\ a >= b

\* ORDER BY created_at ASC; rows of one created_at come in rowid order
Older(a, b) ==
  \/ delivery.rows[a].created_at < delivery.rows[b].created_at
  \/ delivery.rows[a].created_at = delivery.rows[b].created_at /\ a <= b

RECURSIVE OrderByCreatedAt(_)
OrderByCreatedAt(ids) ==
  IF ids = {} THEN <<>>
  ELSE LET a == CHOOSE x \in ids : \A y \in ids : Older(x, y)
       IN <<a>> \o OrderByCreatedAt(ids \ {a})

\* get_pending_notifications(limit) on the rows with their created_at
PendingNotifications(limit) ==
  LET due == {i \in 1..Len(delivery.rows) :
                /\ delivery.rows[i].status = "pending"
                /\ delivery.rows[i].created_at <= delivery.now}
      all == OrderByCreatedAt(due)
      cut == IF Len(all) <= limit THEN all ELSE SubSeq(all, 1, limit)
  IN [k \in 1..Len(cut) |->
        [id |-> cut[k], retry_count |-> delivery.rows[cut[k]].retry_count]]

\* enqueue_notification: created_at = now
EnqueueAt(chat) ==
  /\ Len(delivery.rows) < MaxQueued
  /\ delivery' = [delivery EXCEPT !.rows = Append(@,
       [chat_id |-> chat, status |-> "pending", created_at |-> delivery.now,
        retry_count |-> 0])]
  /\ UNCHANGED otherThanDelivery

\* a second passes
Pass ==
  /\ delivery.now < MaxNow
  /\ delivery' = [delivery EXCEPT !.now = @ + 1]
  /\ UNCHANGED otherThanDelivery

\* _process_batch of loop t reads its batch
PollBatch(t, limit) ==
  /\ delivery.batches[t] = <<>>
  /\ PendingNotifications(limit) # <<>>
  /\ delivery' = [delivery EXCEPT !.batches[t] = PendingNotifications(limit)]
  /\ UNCHANGED otherThanDelivery

\* _process_notification of loop t on the next row of its batch: send_message,
\* then mark_notification_sent, or mark_notification_failed and
\* schedule_notification_retry
Hand(t, success) ==
  /\ delivery.batches[t] # <<>>
  /\ LET notif == Head(delivery.batches[t])
         retry_count == notif.retry_count + 1
         seen == {delivery.sent[k] : k \in 1..Len(delivery.sent)}
     IN delivery' = [delivery EXCEPT
          !.batches[t] = Tail(@),
          !.sent = IF success /\ notif.id \notin seen THEN Append(@, notif.id) ELSE @,
          !.failed = @ \/ ~success,
          !.rows[notif.id] =
             IF success THEN [@ EXCEPT !.status = "sent"]
             ELSE IF retry_count < MaxRetries
             THEN [@ EXCEPT !.status = "pending",
                            !.retry_count = @ + 1,
                            !.created_at = delivery.now + Pow(PollInterval, retry_count)]
             ELSE [@ EXCEPT !.status = "failed", !.retry_count = @ + 1]]
  /\ UNCHANGED otherThanDelivery

NextDelivery ==
  \/ \E chat \in DeliveryChats : EnqueueAt(chat)
  \/ Pass
  \/ \E t \in DeliveryLoops, limit \in 1..MaxBatch : PollBatch(t, limit)
  \/ \E t \in DeliveryLoops, success \in BOOLEAN : Hand(t, success)

SpecDelivery == Init /\ [][NextDelivery]_vars

\* rows a and b, a enqueued before b, were first sent in that order (b not
\* before a)
InOrder(a, b) ==
  \A k \in 1..Len(delivery.sent) :
    delivery.sent[k] = b => \E j \in 1..(k - 1) : delivery.sent[j] = a

C37_RescheduledRowGoesLater ==
  /\ delivery.failed
  /\ Len(delivery.rows) >= 2
  /\ delivery.rows[1].chat_id = delivery.rows[2].chat_id
  /\ delivery.rows[1].status = "sent"
  /\ delivery.rows[2].status = "sent"
  /\ ~InOrder(1, 2)

\* the outbox rows that are reminders of clarification id
Reminders(id) ==
  {i \in 1..Len(notification_outbox) :
     /\ notification_outbox[i].operation_id = id
     /\ id \in DOMAIN execution_log
     /\ execution_log[id].capability = "runtime"}

\* C38: at most one reminder is ever enqueued for a postponed operation,
\* whatever restarts and recover_pending runs happen.
C38_AtMostOneReminder ==
  \A id \in 1..MaxOps : Cardinality(Reminders(id)) <= 1

\* the pairs _execute_capability has a branch for; every other pair falls
\* through to _execute_capability_placeholder
Recognized(capability, action) ==
  \/ capability = "fs" /\ action \in {"list", "read", "search", "apply_patch"}
  \/ capability = "git" /\ action \in {"status", "diff", "list_snapshots", "rollback"}

\* C39: the broker reports success only for a (capability, action) pair it
\* recognizes; a call with any other pair returns refused, with error
\* invalid_request.
C39_UnrecognizedRefused ==
  \A id \in DOMAIN ops :
    ops[id].pc = "returned" /\ ~Recognized(ops[id].capability, ops[id].action) =>
      ~ops[id].allowed /\ ops[id].error = "invalid_request"

\* route_operation when log_operation_start raises (get_db has no manager,
\* or the INSERT fails): the await stands before the try block, so the
\* exception leaves route_operation; nothing was written
RouteRaises(req, chat) ==
  /\ nextOpId <= MaxOps
  /\ Validate(req.capability, req.action, req.params) = "ok"
  /\ LET id == nextOpId
         tier == classify_tier(req.capability, req.action, count_files(req.params))
     IN /\ nextOpId' = id + 1
        /\ operation_start_times' = operation_start_times \cup {id}
        /\ ops' = ops @@ (id :> [Frame(req, chat, tier) EXCEPT
                                   !.pc = "raised", !.chat_id = "-",
                                   !.file_path = FALSE, !.trace = <<>>])
  /\ UNCHANGED <<restVars, execution_log, notification_outbox, notify_enabled,
                 workerVars, clarifyVars>>

NextBrokerFaults ==
  \/ Next
  \/ \E req \in Requests, chat \in RouteChats : RouteRaises(req, chat)

SpecBrokerFaults == Init /\ [][NextBrokerFaults]_vars

\* C40: once route_operation has returned or raised for an operation,
\* _operation_start_times holds no entry for it.
C40_NoEntryAfterCall ==
  \A id \in DOMAIN ops :
    ops[id].pc \in {"returned", "denied", "raised"} => id \notin operation_start_times
====
